---- MODULE Spec2Model ----
(***************************************************************************)
(* A model of ajdb: the amendment engine (ajdb/amender.py), the working    *)
(* document model (ajdb/structure.py) and the content-addressed object     *)
(* storage (ajdb/object_storage.py, ajdb/utils.py).                        *)
(*                                                                         *)
(* Values.  Every tree node (structural element, Article, Article proxy,   *)
(* SAE, block amendment container) is one record shape, Node; an absent    *)
(* Optional value is a sentinel of the same type as the present one:       *)
(*   Optional[str]   NoneText           identifier None   0                *)
(*   Optional[Date]  NoDate             no storage key    NoKey            *)
(* A str is the tuple of its characters.  Identifiers are numbered by      *)
(* their rank in hun_law's identifier_less order ("5" < "5/A" < "6").      *)
(* Dates are day numbers.                                                  *)
(***************************************************************************)
EXTENDS Integers, Sequences, FiniteSets, TLC

VARIABLES
    files,          \* the blob store: prefix -> (key -> bytes written)
    article_cache,  \* ArticleWMProxy.OBJECT_STORAGE.cache, LRU first
    act_cache,      \* ActWMProxy.OBJECT_STORAGE.cache, LRU first
    saved,          \* history: the (value, key) pairs save() has returned
    last,           \* the last storage call and what it returned
    raw_acts,       \* do_amendments: the raw Acts it was given
    converted,      \* do_amendments: converted_acts, in conversion order
    act_set,        \* the acts of the current ActSet
    loop_date,      \* do_amendments: date, the day the amender works on
    pc,             \* where the caller of the amender stands
    am_last         \* the last amender call and what it did

store_vars == <<files, article_cache, act_cache, saved, last>>

amender_vars == <<raw_acts, converted, act_set, loop_date, pc, am_last>>

vars == <<files, article_cache, act_cache, saved, last,
          raw_acts, converted, act_set, loop_date, pc, am_last>>

----------------------------------------------------------------------------
(* Sentinels *)

NoneText == <<"None">>
NoDate == -1
NoKey == <<>>
NOT_ENFORCED_TEXT == <<" ">>

----------------------------------------------------------------------------
(* The node record *)

MkNode(cls, identifier, title, text, intro, wrap_up, children, sd_none, semantic_data, wm, from_date, to_date, key) ==
    [cls |-> cls, identifier |-> identifier, title |-> title,
     text |-> text, intro |-> intro, wrap_up |-> wrap_up,
     children |-> children,
     sd_none |-> sd_none, semantic_data |-> semantic_data,
     wm |-> wm, from_date |-> from_date, to_date |-> to_date,
     key |-> key]

\* A leaf ParagraphWM / PointWM with resolved metadata.
SaeWM(cls, identifier, text, semantic_data, from_date, to_date) ==
    MkNode(cls, identifier, NoneText, text, NoneText, NoneText, <<>>,
           FALSE, semantic_data, TRUE, from_date, to_date, NoKey)

\* An ArticleWM.
ArticleWM(identifier, title, children) ==
    MkNode("Article", identifier, title, NoneText, NoneText, NoneText, children,
           TRUE, <<>>, TRUE, NoDate, NoDate, NoKey)

\* A structural element (Book, Part, Title, Chapter, Subtitle).
StructuralElement(cls, identifier, title) ==
    MkNode(cls, identifier, title, NoneText, NoneText, NoneText, <<>>,
           TRUE, <<>>, FALSE, NoDate, NoDate, NoKey)

\* ArticleWMProxy(key, identifier)
ArticleWMProxy(key, identifier) ==
    MkNode("ArticleWMProxy", identifier, NoneText, NoneText, NoneText, NoneText, <<>>,
           TRUE, <<>>, FALSE, NoDate, NoDate, key)

IsStructuralElement(c) == c.cls \in {"Book", "Part", "Title", "Chapter", "Subtitle"}

\* ActWM and ActWMProxy share one record shape; type tells them apart.
ActWM(identifier, publication_date, subject, children, interesting_dates) ==
    [type |-> "ActWM", identifier |-> identifier,
     publication_date |-> publication_date, subject |-> subject,
     children |-> children, interesting_dates |-> interesting_dates,
     key |-> NoKey]

ActWMProxy(key, identifier, subject, interesting_dates) ==
    [type |-> "ActWMProxy", identifier |-> identifier,
     publication_date |-> NoDate, subject |-> subject,
     children |-> <<>>, interesting_dates |-> interesting_dates,
     key |-> key]

----------------------------------------------------------------------------
(* hun_law's Reference, as ajdb uses it.  A component is the pair <<lo, hi>> *)
(* of identifier ranks: None is <<0, 0>>, a single identifier has lo = hi.   *)
(* One record shape serves Reference, StructuralReference and "no position". *)

NoComp == <<0, 0>>
One(id) == <<id, id>>
NoAct == ""

MkRef(rtype, act, article, paragraph, point, subpoint, s_cls, s_id, s_title, book, special, special_article) ==
    [rtype |-> rtype, act |-> act, article |-> article, paragraph |-> paragraph,
     point |-> point, subpoint |-> subpoint,
     s_cls |-> s_cls, s_id |-> s_id, s_title |-> s_title, book |-> book,
     special |-> special, special_article |-> special_article]

\* Reference(act, article, paragraph, point, subpoint)
Reference(act, article, paragraph, point, subpoint) ==
    MkRef("Reference", act, article, paragraph, point, subpoint, "", 0, NoneText, 0, "", 0)

\* StructuralReference(act, book, <s_cls>=<s_id or s_title>, special): the
\* innermost structural component is named by identifier (s_id) or by title
\* (s_title); special is a SubtitleArticleCombo (position, article_id) or "".
StructuralReference(act, book, s_cls, s_id, s_title, special, special_article) ==
    MkRef("StructuralReference", act, NoComp, NoComp, NoComp, NoComp,
          s_cls, s_id, s_title, book, special, special_article)

\* position = None
NoPosition == MkRef("None", NoAct, NoComp, NoComp, NoComp, NoComp, "", 0, NoneText, 0, "", 0)

\* The components of a Reference below the act, outermost first.
Comps(ref) == <<ref.article, ref.paragraph, ref.point, ref.subpoint>>

\* The index of the innermost component that is not None, 0 when all are.
LastLevel(ref) ==
    IF ref.subpoint # NoComp THEN 4
    ELSE IF ref.point # NoComp THEN 3
    ELSE IF ref.paragraph # NoComp THEN 2
    ELSE IF ref.article # NoComp THEN 1
    ELSE 0

\* Reference.contains(other): same act, and component by component other
\* lies in self's identifier or range; the components self leaves None after
\* its innermost one are unconstrained, a None above it matches only None.
RefContains(self, other) ==
    /\ self.act = other.act
    /\ \A l \in 1..4 :
          LET mine == Comps(self)[l]
              theirs == Comps(other)[l]
          IN  IF mine = NoComp
              THEN l > LastLevel(self) \/ theirs = NoComp
              ELSE /\ theirs # NoComp
                   /\ mine[1] <= theirs[1]
                   /\ theirs[2] <= mine[2]

\* Reference.relative_to(other): other's components down to the first one
\* self sets, self's components from there on.
RelativeTo(self, other) ==
    LET first ==
            IF self.act # NoAct THEN 0
            ELSE IF \E l \in 1..4 : Comps(self)[l] # NoComp
                 THEN CHOOSE l \in 1..4 :
                          /\ Comps(self)[l] # NoComp
                          /\ \A k \in 1..(l - 1) : Comps(self)[k] = NoComp
                 ELSE 5
        pick(l) == IF l >= first THEN Comps(self)[l] ELSE Comps(other)[l]
    IN  Reference(IF first = 0 THEN self.act ELSE other.act,
                  pick(1), pick(2), pick(3), pick(4))

\* Reference.first_in_range() and last_in_range()
FirstInRange(ref) ==
    [ref EXCEPT !.article = One(@[1]), !.paragraph = One(@[1]),
                !.point = One(@[1]), !.subpoint = One(@[1])]
LastInRange(ref) ==
    [ref EXCEPT !.article = One(@[2]), !.paragraph = One(@[2]),
                !.point = One(@[2]), !.subpoint = One(@[2])]

\* Reference.parent(): the innermost component dropped.
RefParent(ref) ==
    IF ref.subpoint # NoComp THEN [ref EXCEPT !.subpoint = NoComp]
    ELSE IF ref.point # NoComp THEN [ref EXCEPT !.point = NoComp]
    ELSE IF ref.paragraph # NoComp THEN [ref EXCEPT !.paragraph = NoComp]
    ELSE [ref EXCEPT !.article = NoComp]

\* Reference.last_component_with_type()[1], as the level's name.
LastComponentType(ref) ==
    IF LastLevel(ref) = 0 THEN "None"
    ELSE <<"article", "paragraph", "point", "subpoint">>[LastLevel(ref)]

\* Reference ordering: component by component, by identifier_less, None first.
RECURSIVE RefLessFrom(_, _, _)
RefLessFrom(a, b, l) ==
    IF l > 4 THEN FALSE
    ELSE IF Comps(a)[l][1] # Comps(b)[l][1]
         THEN Comps(a)[l][1] < Comps(b)[l][1]
         ELSE RefLessFrom(a, b, l + 1)

\* a < b; a <= b is ~(b < a)
RefLess(a, b) == RefLessFrom(a, b, 1)

\* relative_reference of a node: the Reference of its own identifier alone.
RelativeReference(node) ==
    IF node.cls \in {"Article", "ArticleWMProxy"}
    THEN Reference(NoAct, One(node.identifier), NoComp, NoComp, NoComp)
    ELSE IF node.cls = "Paragraph"
    THEN Reference(NoAct, NoComp, One(node.identifier), NoComp, NoComp)
    ELSE IF node.cls \in {"AlphabeticPoint", "NumericPoint"}
    THEN Reference(NoAct, NoComp, NoComp, One(node.identifier), NoComp)
    ELSE Reference(NoAct, NoComp, NoComp, NoComp, One(node.identifier))

\* hasattr(c, 'relative_reference')
HasRelativeReference(node) ==
    node.cls \in {"Article", "ArticleWMProxy", "Paragraph", "AlphabeticPoint",
                  "NumericPoint", "AlphabeticSubpoint", "NumericSubpoint"}

----------------------------------------------------------------------------
(* Strings are sequences of one-character strings; str.replace and the `in`  *)
(* test are computed as Python computes them.                                *)

\* s[i:i+len(old)] == old
MatchesAt(s, old, i) ==
    /\ i + Len(old) - 1 <= Len(s)
    /\ \A k \in 1..Len(old) : s[i + k - 1] = old[k]

\* str.replace for a non-empty old: leftmost matches, not overlapping.
RECURSIVE ReplaceFrom(_, _, _, _)
ReplaceFrom(s, old, new, i) ==
    IF i > Len(s) THEN <<>>
    ELSE IF MatchesAt(s, old, i)
         THEN new \o ReplaceFrom(s, old, new, i + Len(old))
         ELSE <<s[i]>> \o ReplaceFrom(s, old, new, i + 1)

\* str.replace for the empty old: new before every character and at the end.
RECURSIVE InterleaveFrom(_, _, _)
InterleaveFrom(s, new, i) ==
    IF i > Len(s) THEN new
    ELSE new \o <<s[i]>> \o InterleaveFrom(s, new, i + 1)

\* s.replace(old, new)
StrReplace(s, old, new) ==
    IF old = <<>> THEN InterleaveFrom(s, new, 1) ELSE ReplaceFrom(s, old, new, 1)

\* `s.replace(old, new) if s is not None else None`
ReplaceOrNone(s, old, new) ==
    IF s = NoneText THEN NoneText ELSE StrReplace(s, old, new)

\* old in s
StrContains(s, old) == \E i \in 1..(Len(s) + 1) : MatchesAt(s, old, i)

----------------------------------------------------------------------------
(* Dates.  A Date is the number of a day in a calendar whose months all have *)
(* DaysPerMonth days; year and month are read off that number, and           *)
(* Date.add_days is addition.                                                *)

DaysPerMonth == 3
MonthsPerYear == 12

DateYear(d) == d \div (MonthsPerYear * DaysPerMonth)
DateMonth(d) == ((d \div DaysPerMonth) % MonthsPerYear) + 1
\* Date(year, month, day)
MkDate(year, month, day) ==
    ((year * MonthsPerYear) + (month - 1)) * DaysPerMonth + (day - 1)

----------------------------------------------------------------------------
(* hun_law's semantic data, as ajdb reads it: one record shape for           *)
(* EnforcementDate, TextAmendment, ArticleTitleAmendment, Repeal and         *)
(* BlockAmendment.                                                           *)

MkDirective(kind, position, original_text, replacement_text, text, pure_insertion, date_kind, date_a, date_b, repeal_date) ==
    [kind |-> kind, position |-> position,
     original_text |-> original_text, replacement_text |-> replacement_text,
     text |-> text, pure_insertion |-> pure_insertion,
     date_kind |-> date_kind, date_a |-> date_a, date_b |-> date_b,
     repeal_date |-> repeal_date]

\* EnforcementDate(position, date, repeal_date); date is a Date (date_a),
\* DaysAfterPublication(days = date_a) or
\* DayInMonthAfterPublication(months = date_a, day = date_b).
EnforcementDate(position, date_kind, date_a, date_b, repeal_date) ==
    MkDirective("EnforcementDate", position, NoneText, NoneText, NoneText, FALSE,
                date_kind, date_a, date_b, repeal_date)

TextAmendment(position, original_text, replacement_text) ==
    MkDirective("TextAmendment", position, original_text, replacement_text,
                NoneText, FALSE, "", 0, 0, NoDate)

ArticleTitleAmendment(position, original_text, replacement_text) ==
    MkDirective("ArticleTitleAmendment", position, original_text,
                replacement_text, NoneText, FALSE, "", 0, 0, NoDate)

\* Repeal(position, text); text is NoneText for a whole-element repeal.
Repeal(position, text) ==
    MkDirective("Repeal", position, NoneText, NoneText, text, FALSE,
                "", 0, 0, NoDate)

BlockAmendment(position, pure_insertion) ==
    MkDirective("BlockAmendment", position, NoneText, NoneText, NoneText,
                pure_insertion, "", 0, 0, NoDate)

----------------------------------------------------------------------------
(* ajdb/utils.py: LruDict.  The OrderedDict is the sequence of its entries, *)
(* least recently used first.                                               *)

LruContains(cache, key) == \E i \in 1..Len(cache) : cache[i].key = key

LruIndex(cache, key) == CHOOSE i \in 1..Len(cache) : cache[i].key = key

SeqRemoveAt(s, i) == [j \in 1..(Len(s) - 1) |-> IF j < i THEN s[j] ELSE s[j + 1]]

\* Mutant: the entry stays where it is.
LruMoveToEnd_Stay(cache, key) == cache

\* OrderedDict.move_to_end(key)
LruMoveToEnd(cache, key) ==
    LET i == LruIndex(cache, key)
    IN  Append(SeqRemoveAt(cache, i), cache[i])

\* Mutant: the value read is the oldest entry's, not the key's.
LruGetItem_OldestValue(cache, key) ==
    [value |-> cache[1].value,
     cache |-> LruMoveToEnd(cache, key)]

\* LruDict.__getitem__ of a present key: the value, and the reordered dict.
LruGetItem(cache, key) ==
    [value |-> cache[LruIndex(cache, key)].value,
     cache |-> LruMoveToEnd(cache, key)]

\* OrderedDict.popitem(last=False)
LruPopFirst(cache) == Tail(cache)

\* Mutant: nothing is popped.
LruSetItem_NoEviction(cache, max_elements, key, value) ==
    LruMoveToEnd(IF LruContains(cache, key)
                 THEN [cache EXCEPT ![LruIndex(cache, key)].value = value]
                 ELSE Append(cache, [key |-> key, value |-> value]),
                 key)

\* LruDict.__setitem__
LruSetItem(cache, max_elements, key, value) ==
    LET stored == IF LruContains(cache, key)
                  THEN [cache EXCEPT ![LruIndex(cache, key)].value = value]
                  ELSE Append(cache, [key |-> key, value |-> value])
        moved  == LruMoveToEnd(stored, key)
    IN  IF Len(moved) > max_elements THEN LruPopFirst(moved) ELSE moved

\* update(items), which LruDict has from MutableMapping: self[key] = value
\* for each item in turn
RECURSIVE LruUpdate(_, _, _, _)
LruUpdate(cache, max_elements, items, i) ==
    IF i > Len(items) THEN cache
    ELSE LruUpdate(LruSetItem(cache, max_elements, items[i].key, items[i].value),
                   max_elements, items, i + 1)

\* The keys of the dict, least recently used first
LruKeys(cache) == [i \in 1..Len(cache) |-> cache[i].key]

----------------------------------------------------------------------------
(* ajdb/object_storage.py *)

\* dict2object converter: the typed value as a dict tagged with its type.
ToDict(data) == <<"dict", data>>
ToObject(dict) == dict[2]

\* json.dumps(data, ensure_ascii=False, sort_keys=True).encode('utf-8')
JsonDumps(data) == <<"json", data>>
\* json.load
JsonLoad(bytes) == bytes[2]

\* Mutant: the digest covers the serialisation without the children.
Md5_WithoutChildren(bytes) ==
    <<"md5", <<"json", <<"dict", [bytes[2][2] EXCEPT !.children = <<>>]>>>>>>

\* md5(data_as_json_bytes).hexdigest(): a digest of the bytes and of nothing else.
Md5(bytes) == <<"md5", bytes>>

\* ObjectStorage.get_object_path: one path per key under the storage's prefix.
\* A storage's files are the function from its keys to the bytes of each file.
HasObject(fs, key) == key \in DOMAIN fs

\* Mutant: the file written is the only one the storage keeps.
WriteFile_Alone(fs, key, bytes) ==
    [k \in {key} |-> bytes]

\* gzip.open(object_path, 'wb'); f.write(bytes): creates or overwrites the file.
WriteFile(fs, key, bytes) ==
    [k \in (DOMAIN fs) \cup {key} |-> IF k = key THEN bytes ELSE fs[k]]

\* Mutant: the key is salted with the number of objects already stored.
ObjectStorageSave_SaltedKey(fs, data) ==
    LET data_as_json_bytes == JsonDumps(data)
        key == <<"md5", data_as_json_bytes, Cardinality(DOMAIN fs)>>
    IN  [key |-> key, files |-> WriteFile(fs, key, data_as_json_bytes),
         rewrote |-> HasObject(fs, key)]

\* ObjectStorage.save(data): the key, the files afterwards, and whether the
\* file it opened for writing was there already: the write is reached
\* whether or not the path exists.
ObjectStorageSave(fs, data) ==
    LET data_as_json_bytes == JsonDumps(data)
        key == Md5(data_as_json_bytes)
    IN  [key |-> key, files |-> WriteFile(fs, key, data_as_json_bytes),
         rewrote |-> HasObject(fs, key)]

\* Mutant: an absent file reads as an empty object.
ObjectStorageLoad_EmptyWhenAbsent(fs, key) ==
    IF ~HasObject(fs, key)
    THEN [ok |-> TRUE, data |-> <<"dict", <<>>>>]
    ELSE [ok |-> TRUE, data |-> JsonLoad(fs[key])]

\* ObjectStorage.load(key): KeyError when the file is absent.
ObjectStorageLoad(fs, key) ==
    IF ~HasObject(fs, key)
    THEN [ok |-> FALSE, data |-> <<>>]
    ELSE [ok |-> TRUE, data |-> JsonLoad(fs[key])]

\* CachedTypedObjectStorage.save(data), on a storage st = [files, cache]:
\* the key and the storage afterwards.
TypedSave(st, cache_size, data) ==
    LET data_as_dict == ToDict(data)
        r == ObjectStorageSave(st.files, data_as_dict)
    IN  [key |-> r.key, rewrote |-> r.rewrote,
         st |-> [files |-> r.files,
                 cache |-> LruSetItem(st.cache, cache_size, r.key, data)]]

\* Mutant: the cache keeps the dict that was read, not the object.
TypedLoad_CacheUndecoded(st, cache_size, key) ==
    IF LruContains(st.cache, key)
    THEN LET g == LruGetItem(st.cache, key)
         IN  [ok |-> TRUE, from_cache |-> TRUE, value |-> <<g.value>>,
              st |-> [files |-> st.files, cache |-> g.cache]]
    ELSE LET r == ObjectStorageLoad(st.files, key)
         IN  IF ~r.ok
             THEN [ok |-> FALSE, from_cache |-> FALSE, value |-> <<>>, st |-> st]
             ELSE [ok |-> TRUE, from_cache |-> FALSE, value |-> <<ToObject(r.data)>>,
                   st |-> [files |-> st.files,
                           cache |-> LruSetItem(st.cache, cache_size, key, r.data)]]

\* CachedTypedObjectStorage.load(key): ok = FALSE is the KeyError, which
\* leaves the storage as it was.
TypedLoad(st, cache_size, key) ==
    IF LruContains(st.cache, key)
    THEN LET g == LruGetItem(st.cache, key)
         IN  [ok |-> TRUE, from_cache |-> TRUE, value |-> <<g.value>>,
              st |-> [files |-> st.files, cache |-> g.cache]]
    ELSE LET r == ObjectStorageLoad(st.files, key)
         IN  IF ~r.ok
             THEN [ok |-> FALSE, from_cache |-> FALSE, value |-> <<>>, st |-> st]
             ELSE LET result == ToObject(r.data)
                  IN  [ok |-> TRUE, from_cache |-> FALSE, value |-> <<result>>,
                       st |-> [files |-> st.files,
                               cache |-> LruSetItem(st.cache, cache_size, key, result)]]

----------------------------------------------------------------------------
(* ajdb/structure.py: metadata removal, proxies, saving and dereferencing *)

\* cache_size of ArticleWMProxy.OBJECT_STORAGE and of ActWMProxy.OBJECT_STORAGE
\* (10000 and 1000 in the source), scaled down so that evictions happen.
ArticleCacheSize == 2
ActCacheSize == 1

\* Mutant: the traversal descends into Paragraphs only.
IsTraversedSae_ParagraphOnly(c) == c.cls = "Paragraph"

\* Children map_recursive descends into: the SAEs that are not block
\* amendment containers (ajdb/utils.py iterate_all_saes_of_sae has the same test).
IsTraversedSae(c) ==
    c.cls \in {"Paragraph", "AlphabeticPoint", "NumericPoint",
               "AlphabeticSubpoint", "NumericSubpoint"}

\* ArticleWM.sae_metadata_remover on every SAE of the subtree:
\* evolve_into(sae, sae.__class__.__base__) drops the metadata field.
RECURSIVE RemoveMetadata(_)
RemoveMetadata(sae) ==
    [sae EXCEPT !.wm = FALSE, !.from_date = NoDate, !.to_date = NoDate,
                !.children = [i \in 1..Len(sae.children) |->
                                 IF IsTraversedSae(sae.children[i])
                                 THEN RemoveMetadata(sae.children[i])
                                 ELSE sae.children[i]]]

\* ArticleWM.to_simple_article
ToSimpleArticle(article) ==
    [article EXCEPT !.wm = FALSE,
                    !.children = [i \in 1..Len(article.children) |->
                                     RemoveMetadata(article.children[i])]]

\* ArticleWMProxy.save_article, on the article storage st
SaveArticle(st, cache_size, article) ==
    LET r == TypedSave(st, cache_size, article)
    IN  [proxy |-> ArticleWMProxy(r.key, article.identifier), st |-> r.st,
         rewrote |-> r.rewrote]

\* ActWM.save_all_articles: the children left to right, each ArticleWM saved
\* and replaced by its proxy.  acc = [st, children].
RECURSIVE SaveAllArticlesFrom(_, _, _, _)
SaveAllArticlesFrom(children, i, cache_size, acc) ==
    IF i > Len(children) THEN acc
    ELSE IF children[i].cls = "Article"
         THEN LET r == SaveArticle(acc.st, cache_size, children[i])
              IN  SaveAllArticlesFrom(children, i + 1, cache_size,
                      [st |-> r.st, children |-> Append(acc.children, r.proxy)])
         ELSE SaveAllArticlesFrom(children, i + 1, cache_size,
                  [st |-> acc.st, children |-> Append(acc.children, children[i])])

SaveAllArticles(st, cache_size, act) ==
    IF ~\E i \in 1..Len(act.children) : act.children[i].cls = "Article"
    THEN [act |-> act, st |-> st]
    ELSE LET r == SaveAllArticlesFrom(act.children, 1, cache_size,
                                      [st |-> st, children |-> <<>>])
         IN  [act |-> [act EXCEPT !.children = r.children], st |-> r.st]

\* ActWMProxy.save_act, on the article storage ast and the act storage cst
SaveAct(ast, article_cache_size, cst, act_cache_size, act) ==
    LET a == SaveAllArticles(ast, article_cache_size, act)
        r == TypedSave(cst, act_cache_size, a.act)
    IN  [proxy |-> ActWMProxy(r.key, a.act.identifier, a.act.subject,
                              a.act.interesting_dates),
         stored |-> a.act, ast |-> a.st, cst |-> r.st, rewrote |-> r.rewrote]

\* ActWM.to_simple_act: every child Article or proxy to its simple Article,
\* a proxy being dereferenced through the article storage first.
\* acc = [ok, st, children, decoded]; ok = FALSE is a KeyError that escaped,
\* decoded counts the Articles that were decoded from their blob.
RECURSIVE ToSimpleChildrenFrom(_, _, _, _)
ToSimpleChildrenFrom(children, i, cache_size, acc) ==
    IF i > Len(children) \/ ~acc.ok THEN acc
    ELSE LET c == children[i]
         IN  IF c.cls = "Article"
             THEN ToSimpleChildrenFrom(children, i + 1, cache_size,
                      [acc EXCEPT !.children = Append(@, ToSimpleArticle(c))])
             ELSE IF c.cls = "ArticleWMProxy"
             THEN LET l == TypedLoad(acc.st, cache_size, c.key)
                  IN  IF ~l.ok
                      THEN [acc EXCEPT !.ok = FALSE]
                      ELSE ToSimpleChildrenFrom(children, i + 1, cache_size,
                               [ok |-> TRUE, st |-> l.st,
                                children |-> Append(acc.children,
                                                    ToSimpleArticle(l.value[1])),
                                decoded |-> acc.decoded +
                                            (IF l.from_cache THEN 0 ELSE 1)])
             ELSE ToSimpleChildrenFrom(children, i + 1, cache_size,
                      [acc EXCEPT !.children = Append(@, c)])

\* The Act to_simple_act returns: evolve_into(self, Act, children=...), which
\* has no interesting_dates.
ToSimpleAct(ast, cache_size, act) ==
    LET r == ToSimpleChildrenFrom(act.children, 1, cache_size,
                                  [ok |-> TRUE, st |-> ast, children |-> <<>>,
                                   decoded |-> 0])
    IN  [ok |-> r.ok, st |-> r.st, decoded |-> r.decoded,
         act |-> [type |-> "Act", identifier |-> act.identifier,
                  publication_date |-> act.publication_date,
                  subject |-> act.subject, children |-> r.children,
                  interesting_dates |-> {}, key |-> NoKey]]

----------------------------------------------------------------------------
(* ajdb/structure.py: ConcreteEnforcementDate *)

ConcreteEnforcementDate(from_date, to_date) ==
    [from_date |-> from_date, to_date |-> to_date]

\* ConcreteEnforcementDate._concretize_single_date
ConcretizeSingleDate(ed, publication_date) ==
    IF ed.date_kind = "Date" THEN ed.date_a
    ELSE IF ed.date_kind = "DaysAfterPublication"
    THEN publication_date + ed.date_a
    ELSE LET month == DateMonth(publication_date) + ed.date_a
             year == DateYear(publication_date)
         IN  IF month > 12
             THEN MkDate(year + 1, month - 12, ed.date_b)
             ELSE MkDate(year, month, ed.date_b)

\* ConcreteEnforcementDate.from_enforcement_date
FromEnforcementDate(ed, publication_date) ==
    ConcreteEnforcementDate(ConcretizeSingleDate(ed, publication_date),
                            ed.repeal_date)

\* Mutant: the first day of the interval is not in force.
IsInForceAtDate_AfterFirstDay(from_date, to_date, date) ==
    IF date <= from_date THEN FALSE
    ELSE IF to_date # NoDate /\ date > to_date THEN FALSE
    ELSE TRUE

\* ConcreteEnforcementDate.is_in_force_at_date, on an SAE's metadata
IsInForceAtDate(from_date, to_date, date) ==
    IF date < from_date THEN FALSE
    ELSE IF to_date # NoDate /\ date > to_date THEN FALSE
    ELSE TRUE

----------------------------------------------------------------------------
(* Python sequences: indexing and slicing with the indices the code computes *)

\* children[:n]
PyHead(seq, n) ==
    LET k == IF n < 0 THEN Len(seq) + n ELSE n
    IN  IF k <= 0 THEN <<>>
        ELSE IF k >= Len(seq) THEN seq
        ELSE SubSeq(seq, 1, k)

\* children[n:]
PyTail(seq, n) ==
    LET k == IF n < 0 THEN Len(seq) + n ELSE n
    IN  IF k <= 0 THEN seq
        ELSE IF k >= Len(seq) THEN <<>>
        ELSE SubSeq(seq, k + 1, Len(seq))

\* children[i] raises IndexError outside -len .. len - 1
PyInRange(seq, i) == -Len(seq) <= i /\ i < Len(seq)
PyAt(seq, i) == IF i < 0 THEN seq[Len(seq) + i + 1] ELSE seq[i + 1]

\* The indices of a Python sequence, counted from 0
Indices(data) == 0..(Len(data) - 1)

\* ajdb/utils.py first_matching_index(data, filter_fn, start), given as
\* matching the indices of the elements filter_fn holds of
FirstMatchingIndex(data, matching, start) ==
    LET hits == {i \in matching : start <= i /\ i < Len(data)}
    IN  IF hits = {} THEN Len(data)
        ELSE CHOOSE i \in hits : \A j \in hits : i <= j

----------------------------------------------------------------------------
(* ajdb/amender.py: cut points *)

\* `children is None`: an element has either a text or children.
ChildrenIsNone(node) == node.text # NoneText

\* StructuralElement.PARENT_TYPES
ParentTypes(cls) ==
    IF cls = "Subtitle" THEN {"Chapter", "Title", "Part", "Book"}
    ELSE IF cls = "Chapter" THEN {"Title", "Part", "Book"}
    ELSE IF cls = "Title" THEN {"Part", "Book"}
    ELSE IF cls = "Part" THEN {"Book"}
    ELSE {}

\* `structural_id in (c.identifier, c.title)`
MatchesStructuralId(position, c) ==
    \/ position.s_id # 0 /\ c.identifier = position.s_id
    \/ position.s_title # NoneText /\ c.title = position.s_title

\* Mutant: an element that is not found is an insertion at the end.
GetCutPointsForStructuralReference_InsertWhenAbsent(position, children) ==
    LET IsTheElement(c) == c.cls = position.s_cls /\ MatchesStructuralId(position, c)
        start_cut == FirstMatchingIndex(children, {i \in Indices(children) : IsTheElement(children[i + 1])}, 0)
        IsEnd(c) == c.cls \in ({position.s_cls} \cup ParentTypes(position.s_cls))
        end_cut == FirstMatchingIndex(children, {i \in Indices(children) : IsEnd(children[i + 1])}, start_cut + 1)
    IN  [ok |-> TRUE, start_cut |-> start_cut, end_cut |-> end_cut]

\* get_cut_points_for_structural_reference
GetCutPointsForStructuralReference(position, children) ==
    LET IsTheBook(c) == c.cls = "Book" /\ c.identifier = position.book
        book_cut == IF position.book # 0
                    THEN FirstMatchingIndex(children, {i \in Indices(children) : IsTheBook(children[i + 1])}, 0)
                    ELSE 0
        IsTheElement(c) == c.cls = position.s_cls /\ MatchesStructuralId(position, c)
        start_cut == FirstMatchingIndex(children, {i \in Indices(children) : IsTheElement(children[i + 1])}, book_cut)
        IsEnd(c) == c.cls \in ({position.s_cls} \cup ParentTypes(position.s_cls))
        end_cut == FirstMatchingIndex(children, {i \in Indices(children) : IsEnd(children[i + 1])}, start_cut + 1)
    IN  IF \/ position.s_id = 0 /\ position.s_title = NoneText
           \/ ~IsStructuralElement([cls |-> position.s_cls])
           \/ position.book # 0 /\ ~(book_cut < Len(children))
           \/ ~(start_cut < Len(children))
        THEN [ok |-> FALSE, start_cut |-> 0, end_cut |-> 0]
        ELSE [ok |-> TRUE, start_cut |-> start_cut, end_cut |-> end_cut]

\* Mutant: the cut point stays below the structural elements.
AboveStructuralElements_Stay(children, start_cut) == start_cut

\* The "quick hack" loop: while start_cut > 0 and children[start_cut-1] is a
\* StructuralElement, start_cut -= 1.
RECURSIVE AboveStructuralElements(_, _)
AboveStructuralElements(children, start_cut) ==
    IF start_cut > 0 /\ IsStructuralElement(children[start_cut])
    THEN AboveStructuralElements(children, start_cut - 1)
    ELSE start_cut

\* BlockAmendmentApplier.get_cut_points_for_reference
GetCutPointsForReference(position, parent_reference, children) ==
    LET start_ref == FirstInRange(position)
        end_ref == LastInRange(position)
        AtOrAfterStart(c) ==
            /\ HasRelativeReference(c)
            /\ ~RefLess(RelativeTo(RelativeReference(c), parent_reference), start_ref)
        AfterEnd(c) ==
            \/ ~HasRelativeReference(c)
            \/ RefLess(end_ref, RelativeTo(RelativeReference(c), parent_reference))
        Moved(start_cut) ==
            [ok |-> TRUE, start_cut |-> AboveStructuralElements(children, start_cut),
             end_cut |-> AboveStructuralElements(children, start_cut)]
        Cut(start_cut, end_cut) ==
            IF start_cut = end_cut THEN Moved(start_cut)
            ELSE [ok |-> TRUE, start_cut |-> start_cut, end_cut |-> end_cut]
        From(start_cut) ==
            Cut(start_cut,
                FirstMatchingIndex(children, {i \in Indices(children) : AfterEnd(children[i + 1])}, start_cut))
    IN  From(FirstMatchingIndex(children, {i \in Indices(children) : AtOrAfterStart(children[i + 1])}, 0))

\* BlockAmendmentApplier.get_cut_points_for_special_reference
GetCutPointsForSpecialReference(position, pure_insertion, children) ==
    LET article_id == position.special_article
        NotBefore(c) ==
            /\ c.cls \in {"Article", "ArticleWMProxy"}
            /\ ~(c.identifier < article_id)
        found_cut == FirstMatchingIndex(children, {i \in Indices(children) : NotBefore(children[i + 1])}, 0)
        article_found ==
            /\ found_cut < Len(children)
            /\ children[found_cut + 1].identifier = article_id
        start0 == IF article_found THEN found_cut
                  ELSE AboveStructuralElements(children, found_cut)
        end0 == IF article_found THEN found_cut + 1 ELSE start0
        IsSubtitleAt(i) == PyInRange(children, i) /\ PyAt(children, i).cls = "Subtitle"
        Cut(ok, a, b) == [ok |-> ok, start_cut |-> a, end_cut |-> b]
    IN  IF position.special = "BEFORE_WITH_ARTICLE"
        THEN IF article_found
             THEN Cut(IsSubtitleAt(start0 - 1), start0 - 1, end0)
             ELSE Cut(TRUE, start0, end0)
        ELSE IF position.special = "BEFORE_WITHOUT_ARTICLE"
        THEN IF ~article_found THEN Cut(FALSE, start0, end0)
             ELSE IF pure_insertion THEN Cut(TRUE, start0, end0 - 1)
             ELSE Cut(IsSubtitleAt(start0 - 1), start0 - 1, end0 - 1)
        ELSE IF position.special = "AFTER"
        THEN IF ~article_found THEN Cut(FALSE, start0, end0)
             ELSE IF pure_insertion THEN Cut(TRUE, start0 + 1, end0)
             ELSE Cut(IsSubtitleAt(start0 + 1), start0 + 1, end0 + 1)
        ELSE Cut(FALSE, start0, end0)

\* BlockAmendmentApplier.compute_new_children: the children with the cut
\* range replaced by new_children, or a failed assertion.
ComputeNewChildren(position, pure_insertion, new_children, parent_reference, children) ==
    LET Spliced(cut) ==
            IF cut.ok /\ cut.start_cut <= cut.end_cut
            THEN [ok |-> TRUE, start_cut |-> cut.start_cut, end_cut |-> cut.end_cut,
                  children |-> PyHead(children, cut.start_cut) \o new_children
                               \o PyTail(children, cut.end_cut)]
            ELSE [ok |-> FALSE, start_cut |-> cut.start_cut, end_cut |-> cut.end_cut,
                  children |-> children]
    IN  Spliced(IF position.rtype = "Reference"
                THEN GetCutPointsForReference(position, parent_reference, children)
                ELSE IF position.rtype = "StructuralReference" /\ position.special # ""
                THEN GetCutPointsForSpecialReference(position, pure_insertion, children)
                ELSE IF position.rtype = "StructuralReference"
                THEN GetCutPointsForStructuralReference(position, children)
                ELSE [ok |-> FALSE, start_cut |-> 0, end_cut |-> 0])

----------------------------------------------------------------------------
(* Modifier callbacks.  A modifier is a record naming the bound method and   *)
(* holding the fields of the object it is bound to.  The object's mutable    *)
(* state, the failure of an assertion and the article storage a dereference  *)
(* goes through travel in acc.  A call returns the element, acc, and same:   *)
(* whether the very object it was given came back.                           *)

MkModifier(kind, asserting, date, original_text, replacement_text, position, pure_insertion, new_children, eds, act_identifier) ==
    [kind |-> kind, asserting |-> asserting, date |-> date,
     original_text |-> original_text, replacement_text |-> replacement_text,
     position |-> position, pure_insertion |-> pure_insertion,
     new_children |-> new_children, eds |-> eds,
     act_identifier |-> act_identifier]

NoEds == [default |-> ConcreteEnforcementDate(NoDate, NoDate), specials |-> <<>>]

\* acc.ok: no assertion has failed and no exception was raised;
\* acc.applied: the applier's applied flag; acc.buckets: the extractor's
\* modifications_per_act, in insertion order; acc.st and acc.act_st: the
\* article storage and the act storage.
MkAcc(st, act_st) ==
    [ok |-> TRUE, applied |-> FALSE, buckets |-> <<>>, st |-> st, act_st |-> act_st]

\* The same with no storage behind it, where no proxy is met.
NoStorageAcc == MkAcc([files |-> <<>>, cache |-> <<>>], [files |-> <<>>, cache |-> <<>>])

Fail(acc) == [acc EXCEPT !.ok = FALSE]

\* Mutant: the pair replaces the list of its key.
BucketAppend_Overwrite(buckets, act_id, sae, modification) ==
    IF \E i \in 1..Len(buckets) : buckets[i].act_id = act_id
    THEN [i \in 1..Len(buckets) |->
             IF buckets[i].act_id = act_id
             THEN [buckets[i] EXCEPT !.mods = <<[sae |-> sae,
                                                 modification |-> modification]>>]
             ELSE buckets[i]]
    ELSE Append(buckets, [act_id |-> act_id,
                          mods |-> <<[sae |-> sae, modification |-> modification]>>])

\* modifications_per_act[act_id].append((sae, modification)) on a
\* defaultdict(list): a new key goes last.
BucketAppend(buckets, act_id, sae, modification) ==
    LET entry == [sae |-> sae, modification |-> modification]
    IN  IF \E i \in 1..Len(buckets) : buckets[i].act_id = act_id
        THEN [i \in 1..Len(buckets) |->
                 IF buckets[i].act_id = act_id
                 THEN [buckets[i] EXCEPT !.mods = Append(@, entry)]
                 ELSE buckets[i]]
        ELSE Append(buckets, [act_id |-> act_id, mods |-> <<entry>>])

\* Mutant: the loop does not pass over the EnforcementDate directives.
RECURSIVE WalkDirectives_KeepEnforcementDates(_, _, _, _, _)
WalkDirectives_KeepEnforcementDates(m, acc, reference, sae, i) ==
    IF i > Len(sae.semantic_data) \/ ~acc.ok THEN acc
    ELSE WalkDirectives_KeepEnforcementDates(
             m,
             [acc EXCEPT !.buckets =
                 BucketAppend(
                     BucketAppend(@, IF sae.semantic_data[i].position.act = NoAct
                                     THEN m.act_identifier
                                     ELSE sae.semantic_data[i].position.act,
                                  sae, sae.semantic_data[i]),
                     m.act_identifier, sae, Repeal(reference, NoneText))],
             reference, sae, i + 1)

\* AmendmentAndRepealExtractor.sae_walker: the loop over semantic_data
RECURSIVE WalkDirectives(_, _, _, _, _)
WalkDirectives(m, acc, reference, sae, i) ==
    IF i > Len(sae.semantic_data) \/ ~acc.ok THEN acc
    ELSE LET d == sae.semantic_data[i]
         IN  IF d.kind = "EnforcementDate"
             THEN WalkDirectives(m, acc, reference, sae, i + 1)
             ELSE IF d.position.act = NoAct
             THEN Fail(acc)
             ELSE WalkDirectives(
                      m,
                      [acc EXCEPT !.buckets =
                          BucketAppend(
                              BucketAppend(@, d.position.act, sae, d),
                              m.act_identifier, sae, Repeal(reference, NoneText))],
                      reference, sae, i + 1)

\* structure.py add_metadata: evolve_into(sae, wm_type, metadata=metadata)
AddMetadata(sae, from_date, to_date) ==
    [sae EXCEPT !.wm = TRUE, !.from_date = from_date, !.to_date = to_date]

\* Mutant: the first special that contains the reference.
ApplicableCed_FirstMatch(eds, reference, i, applicable_ced) ==
    LET containing == {k \in i..Len(eds.specials) :
                           RefContains(eds.specials[k].ref, reference)}
    IN  IF containing = {} THEN applicable_ced
        ELSE eds.specials[CHOOSE k \in containing :
                              \A j \in containing : k <= j].ced

\* EnforcementDateSet.sae_modifier: the last special that contains the
\* reference, the default when none does.
RECURSIVE ApplicableCed(_, _, _, _)
ApplicableCed(eds, reference, i, applicable_ced) ==
    IF i > Len(eds.specials) THEN applicable_ced
    ELSE ApplicableCed(eds, reference, i + 1,
                       IF RefContains(eds.specials[i].ref, reference)
                       THEN eds.specials[i].ced
                       ELSE applicable_ced)

\* Mutant: the node sae_repealer builds has no identifier.
RepealedSae_Unnumbered(sae, current_date) ==
    MkNode(sae.cls, 0, NoneText, NOT_ENFORCED_TEXT, NoneText, NoneText, <<>>,
           FALSE, <<>>, TRUE, sae.from_date, current_date, NoKey)

\* Mutant: the repealed SAE keeps its semantic data.
RepealedSae_KeepDirectives(sae, current_date) ==
    MkNode(sae.cls, sae.identifier, NoneText, NOT_ENFORCED_TEXT, NoneText,
           NoneText, <<>>, sae.sd_none, sae.semantic_data, TRUE, sae.from_date,
           current_date, NoKey)

\* RepealApplier.sae_repealer: sae.__class__(identifier, text = ' ',
\* semantic_data = (), metadata = create_new_metadata(sae))
RepealedSae(sae, current_date) ==
    MkNode(sae.cls, sae.identifier, NoneText, NOT_ENFORCED_TEXT, NoneText,
           NoneText, <<>>, FALSE, <<>>, TRUE, sae.from_date, current_date, NoKey)

\* modifier(reference, sae), for each bound method the code passes to
\* map_recursive, map_recursive_wm or map_saes.
Modify(m, acc, reference, sae) ==
    LET Same(a) == [sae |-> sae, acc |-> a, same |-> TRUE]
        New(node, a) == [sae |-> node, acc |-> a, same |-> FALSE]
    IN  IF ~acc.ok THEN Same(acc)
        ELSE IF m.asserting /\ ~sae.wm THEN Same(Fail(acc))
        ELSE IF m.kind = "ActConverter.sae_metadata_adder"
        THEN IF sae.wm THEN Same(Fail(acc))
             ELSE New(AddMetadata(sae, NoDate, NoDate), acc)
        ELSE IF m.kind = "BlockAmendmentApplier.sae_metadata_adder"
        THEN IF sae.wm THEN Same(Fail(acc))
             ELSE New(AddMetadata(sae, m.date, NoDate), acc)
        ELSE IF m.kind = "EnforcementDateSet.sae_modifier"
        THEN LET ced == ApplicableCed(m.eds, reference, 1, m.eds.default)
             IN  New([sae EXCEPT !.from_date = ced.from_date,
                                 !.to_date = ced.to_date], acc)
        ELSE IF m.kind = "TextReplacementApplier.text_replacer"
        THEN LET new_text == ReplaceOrNone(sae.text, m.original_text, m.replacement_text)
                 new_intro == ReplaceOrNone(sae.intro, m.original_text, m.replacement_text)
                 new_wrap_up == ReplaceOrNone(sae.wrap_up, m.original_text, m.replacement_text)
             IN  IF sae.text = new_text /\ sae.intro = new_intro
                    /\ sae.wrap_up = new_wrap_up
                 THEN Same(acc)
                 ELSE New([sae EXCEPT !.text = new_text, !.intro = new_intro,
                                      !.wrap_up = new_wrap_up,
                                      !.sd_none = TRUE, !.semantic_data = <<>>],
                          [acc EXCEPT !.applied = TRUE])
        ELSE IF m.kind = "RepealApplier.sae_repealer"
        THEN IF sae.from_date = NoDate
             THEN Same(Fail([acc EXCEPT !.applied = TRUE]))
             ELSE New(RepealedSae(sae, m.date), [acc EXCEPT !.applied = TRUE])
        ELSE IF m.kind = "BlockAmendmentApplier.apply_to_sae"
        THEN IF reference # RefParent(m.position) THEN Same(acc)
             ELSE IF ChildrenIsNone(sae) THEN Same(Fail(acc))
             ELSE LET Cut(r) == IF r.ok
                                    THEN New([sae EXCEPT !.children = r.children],
                                             [acc EXCEPT !.applied = TRUE])
                                    ELSE Same(Fail(acc))
                  IN  Cut(ComputeNewChildren(m.position, m.pure_insertion,
                                             m.new_children, reference, sae.children))
        ELSE IF m.kind = "AmendmentAndRepealExtractor.sae_walker"
        THEN IF sae.sd_none THEN Same(acc)
             ELSE IF sae.from_date = NoDate THEN Same(Fail(acc))
             ELSE IF ~IsInForceAtDate(sae.from_date, sae.to_date, m.date)
             THEN Same(acc)
             ELSE Same(WalkDirectives(m, acc, reference, sae, 1))
        ELSE Same(Fail(acc))

\* The element of a set of one element.  The({e(x) : x \in {v}}) is e(v): an
\* intermediate result v of the code, named x, and what the code does with
\* it.  Nested, the last line names the first result.
The(S) == CHOOSE x \in S : TRUE

----------------------------------------------------------------------------
(* Tree traversal: SubArticleElement.map_recursive and Article.map_recursive *)
(* of hun_law as ajdb calls them, ArticleWM.map_recursive_wm,                *)
(* ActWM.map_articles and ActWM.map_saes.                                    *)

RECURSIVE MapRecursive(_, _, _, _, _, _)
RECURSIVE MapChildrenFrom(_, _, _, _, _, _, _)

\* sae.map_recursive(parent_reference, modifier, filter_for_reference,
\* children_first): the modifier is called on the element when the filter is
\* None or contains the element's reference; the walk goes on into the
\* element's SAE children, block amendment containers excepted.
MapRecursive(sae, parent_reference, m, acc, filter, children_first) ==
    LET reference == RelativeTo(RelativeReference(sae), parent_reference)
        selected == filter.rtype = "None" \/ RefContains(filter, reference)
        Call(node, a) == IF selected THEN Modify(m, a, reference, node)
                         ELSE [sae |-> node, acc |-> a, same |-> TRUE]
        Kids(node, a) == MapChildrenFrom(node.children, 1, reference, m,
                                         [children |-> <<>>, acc |-> a, same |-> TRUE],
                                         filter, children_first)
        WithKids(node, kids) == IF kids.same THEN node
                                ELSE [node EXCEPT !.children = kids.children]
        \* children first: the children, then the modifier on the rebuilt element
        Called(r, kids) == [sae |-> r.sae, acc |-> r.acc,
                            same |-> r.same /\ kids.same]
        AfterKids(kids) == Called(Call(WithKids(sae, kids), kids.acc), kids)
        \* otherwise: the modifier, then the children of what it returned
        Rebuilt(r, kids) == [sae |-> WithKids(r.sae, kids), acc |-> kids.acc,
                             same |-> r.same /\ kids.same]
        AfterCall(r) == Rebuilt(r, Kids(r.sae, r.acc))
    IN  IF children_first
        THEN AfterKids(Kids(sae, acc))
        ELSE AfterCall(Call(sae, acc))

MapChildrenFrom(children, i, reference, m, out, filter, children_first) ==
    IF i > Len(children) THEN out
    ELSE LET c == children[i]
             Rest(r) == MapChildrenFrom(children, i + 1, reference, m,
                                        [children |-> Append(out.children, r.sae),
                                         acc |-> r.acc, same |-> out.same /\ r.same],
                                        filter, children_first)
         IN  Rest(IF IsTraversedSae(c)
                  THEN MapRecursive(c, reference, m, out.acc, filter, children_first)
                  ELSE [sae |-> c, acc |-> out.acc, same |-> TRUE])

\* ArticleWM.__attrs_post_init__: every paragraph has metadata.
ArticleWMPostInit(article) ==
    \A i \in 1..Len(article.children) :
        article.children[i].cls = "Paragraph" /\ article.children[i].wm

\* article.map_recursive(parent_reference, modifier, filter, children_first):
\* every paragraph is walked below the article's reference; a changed
\* article is rebuilt by attr.evolve, which runs __attrs_post_init__.
ArticleMapRecursive(article, parent_reference, m, acc, filter, children_first) ==
    LET reference == RelativeTo(RelativeReference(article), parent_reference)
        Evolved(kids) == [article EXCEPT !.children = kids.children]
        Result(kids) ==
            IF kids.same THEN [article |-> article, acc |-> kids.acc, same |-> TRUE]
            ELSE IF article.wm /\ ~ArticleWMPostInit(Evolved(kids))
            THEN [article |-> article, acc |-> Fail(kids.acc), same |-> TRUE]
            ELSE [article |-> Evolved(kids), acc |-> kids.acc, same |-> FALSE]
    IN  Result(MapChildrenFrom(article.children, 1, reference, m,
                               [children |-> <<>>, acc |-> acc, same |-> TRUE],
                               filter, children_first))

\* utils.py evolve_into(article, ArticleWM)
EvolveIntoArticleWM(article, acc) ==
    LET result == [article EXCEPT !.wm = TRUE]
    IN  IF ArticleWMPostInit(result)
        THEN [article |-> result, acc |-> acc, same |-> FALSE]
        ELSE [article |-> article, acc |-> Fail(acc), same |-> TRUE]

\* What hun_law's semantic parser finds in a re-parsed text: the texts of
\* the model are plain sentences, in which it finds no directive.
ParsedSemanticData(sae) == <<>>

\* ActSemanticsParser.add_semantics_to_article on one SAE subtree: an SAE
\* whose semantic_data is None is parsed, any other is left as it is.
RECURSIVE AddSemanticsToSae(_)
AddSemanticsToSae(sae) ==
    [sae EXCEPT !.sd_none = FALSE,
                !.semantic_data = IF sae.sd_none THEN ParsedSemanticData(sae) ELSE @,
                !.children = [i \in 1..Len(sae.children) |->
                                 IF IsTraversedSae(sae.children[i])
                                 THEN AddSemanticsToSae(sae.children[i])
                                 ELSE sae.children[i]]]

\* An article modifier: the bound method map_articles is given.  sae_modifier
\* and filter are what ActWM.map_saes and EnforcementDateSet.article_modifier
\* hand on to map_recursive_wm.
MkArticleModifier(kind, applier, sae_modifier, parent_reference, filter, children_first) ==
    [kind |-> kind, applier |-> applier, sae_modifier |-> sae_modifier,
     parent_reference |-> parent_reference, filter |-> filter,
     children_first |-> children_first]

\* modifier(article_reference, article), for each bound method the code
\* passes to map_articles.
ModifyArticle(am, acc, reference, article) ==
    LET Same(a) == [article |-> article, acc |-> a, same |-> TRUE]
        New(node, a) == [article |-> node, acc |-> a, same |-> FALSE]
        m == am.applier
    IN  IF ~acc.ok THEN Same(acc)
        ELSE IF am.kind = "map_recursive_wm"
        THEN ArticleMapRecursive(article, am.parent_reference, am.sae_modifier,
                                 acc, am.filter, am.children_first)
        ELSE IF am.kind = "RepealApplier.article_repealer"
        THEN IF Len(article.children) = 0 THEN Same(Fail(acc))
             ELSE LET first_paragraph == article.children[1]
                  IN  IF ~(first_paragraph.cls = "Paragraph" /\ first_paragraph.wm)
                      THEN Same(Fail(acc))
                      ELSE IF first_paragraph.from_date = NoDate
                      THEN Same(Fail([acc EXCEPT !.applied = TRUE]))
                      ELSE New(ArticleWM(article.identifier, NoneText,
                                   <<SaeWM("Paragraph", 0, NOT_ENFORCED_TEXT, <<>>,
                                           first_paragraph.from_date, m.date)>>),
                               [acc EXCEPT !.applied = TRUE])
        ELSE IF am.kind = "ArticleTitleAmendmentApplier.modifier"
        THEN IF article.title = NoneText THEN Same(Fail(acc))
             ELSE New([article EXCEPT !.title =
                          StrReplace(@, m.original_text, m.replacement_text)],
                      [acc EXCEPT !.applied =
                          StrContains(article.title, m.original_text)])
        ELSE IF am.kind = "BlockAmendmentApplier.apply_to_article"
        THEN LET Evolved(r) == [article EXCEPT !.children = r.children]
                 Cut(r) == IF r.ok /\ ArticleWMPostInit(Evolved(r))
                           THEN New(Evolved(r), [acc EXCEPT !.applied = TRUE])
                           ELSE IF r.ok THEN Same(Fail([acc EXCEPT !.applied = TRUE]))
                           ELSE Same(Fail(acc))
             IN  Cut(ComputeNewChildren(m.position, m.pure_insertion,
                                        m.new_children, reference, article.children))
        ELSE IF am.kind = "ActSetAmendmentApplier.article_semantics_adder"
        THEN LET result == [article EXCEPT !.children =
                               [i \in 1..Len(@) |-> AddSemanticsToSae(@[i])]]
             IN  IF result = article THEN Same(acc) ELSE New(result, acc)
        ELSE Same(Fail(acc))

\* ActWM.map_articles(modifier, filter_for_reference): a proxy child is
\* dereferenced through the article storage before the modifier sees it, and
\* a child is replaced only when the modifier returned another object.
RECURSIVE MapArticlesFrom(_, _, _, _, _)
MapArticlesFrom(act, i, am, filter, out) ==
    IF i > Len(act.children) THEN out
    ELSE LET child == act.children[i]
             article_reference ==
                 Reference(act.identifier, One(child.identifier), NoComp, NoComp, NoComp)
             Keep(a) == [children |-> Append(out.children, child), acc |-> a,
                         children_changed |-> out.children_changed]
         IN  IF ~out.acc.ok
                \/ child.cls \notin {"Article", "ArticleWMProxy"}
                \/ ~(filter.rtype = "None" \/ RefContains(filter, article_reference))
             THEN MapArticlesFrom(act, i + 1, am, filter, Keep(out.acc))
             ELSE LET loaded == IF child.cls = "Article"
                                THEN [ok |-> TRUE, value |-> <<child>>, st |-> out.acc.st]
                                ELSE TypedLoad(out.acc.st, ArticleCacheSize, child.key)
                      acc1 == [out.acc EXCEPT !.st = loaded.st]
                  IN  IF ~loaded.ok
                      THEN MapArticlesFrom(act, i + 1, am, filter, Keep(Fail(acc1)))
                      ELSE LET Rest(r) ==
                                   MapArticlesFrom(
                                       act, i + 1, am, filter,
                                       IF r.same THEN Keep(r.acc)
                                       ELSE [children |-> Append(out.children, r.article),
                                             acc |-> r.acc, children_changed |-> TRUE])
                           IN  Rest(ModifyArticle(am, acc1, article_reference,
                                                  loaded.value[1]))

MapArticles(act, am, acc, filter) ==
    LET Result(r) == [act |-> IF r.children_changed /\ r.acc.ok
                              THEN [act EXCEPT !.children = r.children]
                              ELSE act,
                      acc |-> r.acc]
    IN  Result(MapArticlesFrom(act, 1, am, filter,
                               [children |-> <<>>, acc |-> acc,
                                children_changed |-> FALSE]))

\* ActWM.map_saes(modifier, filter_for_reference, children_first)
MapSaes(act, m, acc, filter, children_first) ==
    MapArticles(act,
                MkArticleModifier("map_recursive_wm", m, [m EXCEPT !.asserting = TRUE],
                                  Reference(act.identifier, NoComp, NoComp, NoComp, NoComp),
                                  filter, children_first),
                acc, NoPosition)

----------------------------------------------------------------------------
(* ajdb/amender.py: the appliers and ModificationSet.apply_all *)

NoModifier == MkModifier("", FALSE, NoDate, NoneText, NoneText, NoPosition, FALSE, <<>>, NoEds, NoAct)

\* Mutant: the quoted block gets metadata without a from_date.
RECURSIVE NewChildrenFrom_Undated(_, _, _, _)
NewChildrenFrom_Undated(children, i, current_date, out) ==
    IF i > Len(children) THEN out
    ELSE LET child == children[i]
             adder == [NoModifier EXCEPT
                          !.kind = "ActConverter.sae_metadata_adder"]
             no_ref == Reference(NoAct, NoComp, NoComp, NoComp, NoComp)
             acc0 == [NoStorageAcc EXCEPT !.ok = out.ok]
             OfSae(x) == [node |-> x.sae, ok |-> x.acc.ok]
             OfArticle(y) == [node |-> y.article, ok |-> y.acc.ok]
             Evolved(x) == EvolveIntoArticleWM(x.article, x.acc)
             Rest(r) == NewChildrenFrom_Undated(children, i + 1, current_date,
                                                [ok |-> r.ok,
                                                 children |-> Append(out.children, r.node)])
         IN  Rest(IF IsTraversedSae(child)
                  THEN OfSae(MapRecursive(child, no_ref, adder, acc0, NoPosition, TRUE))
                  ELSE IF child.cls = "Article"
                  THEN OfArticle(Evolved(ArticleMapRecursive(child, no_ref, adder, acc0,
                                                             NoPosition, TRUE)))
                  ELSE [node |-> child, ok |-> out.ok])

\* BlockAmendmentApplier._new_children_default: the children of the source
\* SAE's block amendment container, metadata added with from_date =
\* current_date; ok is FALSE when one of its assertions fails.
RECURSIVE NewChildrenFrom(_, _, _, _)
NewChildrenFrom(children, i, current_date, out) ==
    IF i > Len(children) THEN out
    ELSE LET child == children[i]
             adder == [NoModifier EXCEPT
                          !.kind = "BlockAmendmentApplier.sae_metadata_adder",
                          !.date = current_date]
             no_ref == Reference(NoAct, NoComp, NoComp, NoComp, NoComp)
             acc0 == [NoStorageAcc EXCEPT !.ok = out.ok]
             OfSae(x) == [node |-> x.sae, ok |-> x.acc.ok]
             OfArticle(y) == [node |-> y.article, ok |-> y.acc.ok]
             Evolved(x) == EvolveIntoArticleWM(x.article, x.acc)
             Rest(r) == NewChildrenFrom(children, i + 1, current_date,
                                        [ok |-> r.ok,
                                         children |-> Append(out.children, r.node)])
         IN  Rest(IF IsTraversedSae(child)
                  THEN OfSae(MapRecursive(child, no_ref, adder, acc0, NoPosition, TRUE))
                  ELSE IF child.cls = "Article"
                  THEN OfArticle(Evolved(ArticleMapRecursive(child, no_ref, adder, acc0,
                                                             NoPosition, TRUE)))
                  ELSE [node |-> child, ok |-> out.ok])

NewChildrenDefault(source_sae, current_date) ==
    IF \/ ChildrenIsNone(source_sae)
       \/ Len(source_sae.children) # 1
    THEN [ok |-> FALSE, children |-> <<>>]
    ELSE LET block_amendment_container == source_sae.children[1]
         IN  IF \/ block_amendment_container.cls # "BlockAmendmentContainer"
                \/ ChildrenIsNone(block_amendment_container)
             THEN [ok |-> FALSE, children |-> <<>>]
             ELSE NewChildrenFrom(block_amendment_container.children, 1,
                                  current_date, [ok |-> TRUE, children |-> <<>>])

\* applier_class.can_apply(modification)
CanApply(applier_class, modification) ==
    IF applier_class = "TextReplacementApplier"
    THEN \/ modification.kind = "TextAmendment"
         \/ modification.kind = "Repeal" /\ modification.text # NoneText
    ELSE IF applier_class = "ArticleTitleAmendmentApplier"
    THEN modification.kind = "ArticleTitleAmendment"
    ELSE IF applier_class = "RepealApplier"
    THEN modification.kind = "Repeal" /\ modification.text = NoneText
    ELSE modification.kind = "BlockAmendment"

\* TextReplacementApplier.priority; 0 for the other appliers.
TextReplacementPriority(original_text) == Len(original_text)

\* applier_class(m, sae, current_date): the applier with the fields its
\* attrs defaults compute; ok is FALSE when a default's assertion fails.
MkApplier(applier_class, modification, source_sae, current_date) ==
    LET original_text == IF modification.kind = "TextAmendment"
                         THEN modification.original_text
                         ELSE modification.text
        replacement_text == IF modification.kind = "TextAmendment"
                            THEN modification.replacement_text
                            ELSE NOT_ENFORCED_TEXT
        Applier(new_children) ==
            [applier_class |-> applier_class,
             modification |-> modification,
             source_sae |-> source_sae,
             current_date |-> current_date,
             position |-> modification.position,
             original_text |-> IF applier_class = "TextReplacementApplier"
                               THEN original_text ELSE NoneText,
             replacement_text |-> IF applier_class = "TextReplacementApplier"
                                  THEN replacement_text ELSE NoneText,
             pure_insertion |-> modification.pure_insertion,
             new_children |-> new_children.children,
             priority |-> IF applier_class = "TextReplacementApplier"
                          THEN TextReplacementPriority(original_text) ELSE 0,
             applied |-> FALSE,
             ok |-> /\ new_children.ok
                    /\ ~(/\ applier_class = "TextReplacementApplier"
                         /\ modification.kind = "Repeal"
                         /\ modification.position.rtype # "Reference")]
    IN  Applier(IF applier_class = "BlockAmendmentApplier"
                THEN NewChildrenDefault(source_sae, current_date)
                ELSE [ok |-> TRUE, children |-> <<>>])

APPLIER_CLASSES ==
    <<"TextReplacementApplier", "ArticleTitleAmendmentApplier",
      "RepealApplier", "BlockAmendmentApplier">>

\* appliers.extend(applier_class(m, sae, current_date) for sae, m in
\* self.modifications if applier_class.can_apply(m)), class by class
RECURSIVE AppliersOfClass(_, _, _, _)
AppliersOfClass(applier_class, modifications, current_date, i) ==
    IF i > Len(modifications) THEN <<>>
    ELSE (IF CanApply(applier_class, modifications[i].modification)
          THEN <<MkApplier(applier_class, modifications[i].modification,
                           modifications[i].sae, current_date)>>
          ELSE <<>>)
         \o AppliersOfClass(applier_class, modifications, current_date, i + 1)

BuildAppliers(modifications, current_date) ==
    AppliersOfClass(APPLIER_CLASSES[1], modifications, current_date, 1)
    \o AppliersOfClass(APPLIER_CLASSES[2], modifications, current_date, 1)
    \o AppliersOfClass(APPLIER_CLASSES[3], modifications, current_date, 1)
    \o AppliersOfClass(APPLIER_CLASSES[4], modifications, current_date, 1)

\* Mutant: the sort without reverse=True.
GoesBefore_Ascending(a, b) == a.priority < b.priority

\* The sort key's order: a goes before b when its priority is higher.
GoesBefore(a, b) == a.priority > b.priority

\* appliers.sort(key=lambda x: x.priority, reverse=True): a stable sort,
\* appliers of equal priority keep their order.
RECURSIVE SortAppliersFrom(_, _, _)
SortAppliersFrom(appliers, i, sorted) ==
    IF i > Len(appliers) THEN sorted
    ELSE LET x == appliers[i]
             k == Cardinality({j \in 1..Len(sorted) : ~GoesBefore(x, sorted[j])})
         IN  SortAppliersFrom(appliers, i + 1,
                              SubSeq(sorted, 1, k) \o <<x>>
                              \o SubSeq(sorted, k + 1, Len(sorted)))

SortAppliers(appliers) == SortAppliersFrom(appliers, 1, <<>>)

\* The SAE modifier an applier binds: its fields, under the method's name.
BoundMethod(applier, kind) ==
    MkModifier(kind, FALSE, applier.current_date,
               IF applier.applier_class = "ArticleTitleAmendmentApplier"
               THEN applier.modification.original_text ELSE applier.original_text,
               IF applier.applier_class = "ArticleTitleAmendmentApplier"
               THEN applier.modification.replacement_text ELSE applier.replacement_text,
               applier.position, applier.pure_insertion,
               applier.new_children, NoEds, NoAct)

BoundArticleMethod(applier, kind) ==
    MkArticleModifier(kind, BoundMethod(applier, kind), NoModifier, NoPosition,
                      NoPosition, FALSE)

\* ActWM's children validator: StructuralElement, ArticleWM or ArticleWMProxy
IsActChild(c) ==
    \/ IsStructuralElement(c)
    \/ c.cls = "Article" /\ c.wm
    \/ c.cls = "ArticleWMProxy"

\* RepealApplier.apply_to_act
RepealApplyToAct(applier, act, acc) ==
    LET position == applier.position
        Is(c) == c.cls \in {"Article", "ArticleWMProxy"}
                 /\ c.identifier = position.special_article
        special_end == FirstMatchingIndex(act.children, {i \in Indices(act.children) : Is(act.children[i + 1])}, 0)
        cut == IF position.special = ""
               THEN GetCutPointsForStructuralReference(position, act.children)
               ELSE [ok |-> position.special = "BEFORE_WITHOUT_ARTICLE",
                     start_cut |-> special_end - 1, end_cut |-> special_end]
    IN  IF position.rtype # "StructuralReference" \/ ~cut.ok
        THEN [act |-> act, acc |-> Fail(acc)]
        ELSE IF position.special # "" /\ special_end >= Len(act.children)
        THEN [act |-> act, acc |-> acc]
        ELSE [act |-> [act EXCEPT !.children =
                          PyHead(@, cut.start_cut) \o PyTail(@, cut.end_cut)],
              acc |-> [acc EXCEPT !.applied = TRUE]]

\* BlockAmendmentApplier.apply_to_act
BlockAmendmentApplyToAct(applier, act, acc) ==
    LET Cut(r) ==
            IF ~r.ok THEN [act |-> act, acc |-> Fail(acc)]
            ELSE IF \E i \in 1..Len(r.children) : ~IsActChild(r.children[i])
            THEN [act |-> act, acc |-> Fail([acc EXCEPT !.applied = TRUE])]
            ELSE [act |-> [act EXCEPT !.children = r.children],
                  acc |-> [acc EXCEPT !.applied = TRUE]]
    IN  Cut(ComputeNewChildren(applier.position, applier.pure_insertion,
                               applier.new_children,
                               Reference(act.identifier, NoComp, NoComp, NoComp, NoComp),
                               act.children))

\* applier.apply(act), for the four applier classes
ApplierApply(applier, act, acc) ==
    LET position == applier.position
        expected_type == LastComponentType(position)
    IN  IF applier.applier_class = "TextReplacementApplier"
        THEN MapSaes(act, BoundMethod(applier, "TextReplacementApplier.text_replacer"),
                     acc, position, FALSE)
        ELSE IF applier.applier_class = "ArticleTitleAmendmentApplier"
        THEN IF expected_type # "article" THEN [act |-> act, acc |-> Fail(acc)]
             ELSE MapArticles(act,
                      BoundArticleMethod(applier, "ArticleTitleAmendmentApplier.modifier"),
                      acc, position)
        ELSE IF applier.applier_class = "RepealApplier"
        THEN IF position.rtype = "Reference"
             THEN IF expected_type = "article"
                  THEN MapArticles(act,
                           BoundArticleMethod(applier, "RepealApplier.article_repealer"),
                           acc, position)
                  ELSE MapSaes(act, BoundMethod(applier, "RepealApplier.sae_repealer"),
                               acc, position, FALSE)
             ELSE RepealApplyToAct(applier, act, acc)
        ELSE IF position.rtype = "Reference"
        THEN IF expected_type = "None" THEN [act |-> act, acc |-> Fail(acc)]
             ELSE IF expected_type = "article"
             THEN BlockAmendmentApplyToAct(applier, act, acc)
             ELSE IF expected_type = "paragraph"
             THEN MapArticles(act,
                      BoundArticleMethod(applier, "BlockAmendmentApplier.apply_to_article"),
                      acc,
                      Reference(act.identifier, position.article, NoComp, NoComp, NoComp))
             ELSE MapSaes(act, BoundMethod(applier, "BlockAmendmentApplier.apply_to_sae"),
                          acc, RefParent(position), FALSE)
        ELSE BlockAmendmentApplyToAct(applier, act, acc)

\* Mutant: the loop ends at the first applier that did not apply.
RECURSIVE ApplyAppliersFrom_StopAtUnapplied(_, _, _)
ApplyAppliersFrom_StopAtUnapplied(appliers, i, out) ==
    IF \/ i > Len(appliers)
       \/ ~out.acc.ok
       \/ out.log # <<>> /\ ~out.log[Len(out.log)].applied
    THEN out
    ELSE The({ApplyAppliersFrom_StopAtUnapplied(appliers, i + 1,
                  [act |-> r.act, acc |-> r.acc,
                   log |-> Append(out.log,
                                  [applier_class |-> appliers[i].applier_class,
                                   modification |-> appliers[i].modification,
                                   priority |-> appliers[i].priority,
                                   new_children |-> appliers[i].new_children,
                                   applied |-> r.acc.applied,
                                   ok |-> r.acc.ok,
                                   before |-> out.act,
                                   after |-> r.act])])
              : r \in {ApplierApply(appliers[i], out.act,
                                    [out.acc EXCEPT !.applied = FALSE])}})

\* ModificationSet.apply_all: the loop over the sorted appliers.  log keeps,
\* for every applier run and in the order they ran, its class, modification,
\* priority and applied flag, and the act before and after it.
RECURSIVE ApplyAppliersFrom(_, _, _)
ApplyAppliersFrom(appliers, i, out) ==
    IF i > Len(appliers) \/ ~out.acc.ok THEN out
    ELSE The({ApplyAppliersFrom(appliers, i + 1,
                  [act |-> r.act, acc |-> r.acc,
                   log |-> Append(out.log,
                                  [applier_class |-> appliers[i].applier_class,
                                   modification |-> appliers[i].modification,
                                   priority |-> appliers[i].priority,
                                   new_children |-> appliers[i].new_children,
                                   applied |-> r.acc.applied,
                                   ok |-> r.acc.ok,
                                   before |-> out.act,
                                   after |-> r.act])])
              : r \in {ApplierApply(appliers[i], out.act,
                                    [out.acc EXCEPT !.applied = FALSE])}})

\* ModificationSet(modifications).apply_all(act, current_date)
ApplyAll(modifications, act, current_date, acc) ==
    The({IF ~acc.ok \/ \E i \in 1..Len(appliers) : ~appliers[i].ok
         THEN [act |-> act, acc |-> Fail(acc), log |-> <<>>]
         ELSE ApplyAppliersFrom(appliers, 1, [act |-> act, acc |-> acc, log |-> <<>>])
         : appliers \in {SortAppliers(BuildAppliers(modifications, current_date))}})

----------------------------------------------------------------------------
(* ajdb/amender.py: EnforcementDateSet and ActConverter *)

\* utils.py iterate_all_saes_of_sae: the SAE, then the SAEs below it
RECURSIVE IterateAllSaesOfSae(_)
RECURSIVE IterateAllSaesFrom(_, _)
IterateAllSaesOfSae(sae) == <<sae>> \o IterateAllSaesFrom(sae.children, 1)

IterateAllSaesFrom(children, i) ==
    IF i > Len(children) THEN <<>>
    ELSE (IF IsTraversedSae(children[i])
          THEN IterateAllSaesOfSae(children[i]) ELSE <<>>)
         \o IterateAllSaesFrom(children, i + 1)

\* utils.py iterate_all_saes_of_act: article by article
RECURSIVE IterateAllSaesOfAct(_, _)
IterateAllSaesOfAct(children, i) ==
    IF i > Len(children) THEN <<>>
    ELSE (IF children[i].cls = "Article"
          THEN IterateAllSaesFrom(children[i].children, 1) ELSE <<>>)
         \o IterateAllSaesOfAct(children, i + 1)

\* The directives of the SAEs, in the order from_act's two loops meet them;
\* sd_none marks an SAE whose semantic_data is None.
RECURSIVE DirectivesOf(_, _)
DirectivesOf(saes, i) ==
    IF i > Len(saes) THEN <<>>
    ELSE (IF saes[i].sd_none THEN <<[kind |-> "None"]>> ELSE saes[i].semantic_data)
         \o DirectivesOf(saes, i + 1)

\* Mutant: the order of the default and a special is not asserted.
DefaultIsEarliest_Unchecked(default, special) == TRUE

\* The last two assertions of EnforcementDateSet.from_act
DefaultIsEarliest(default, special) == default.from_date <= special.from_date
SpecialIsOpenEnded(special) == special.to_date = NoDate

\* EnforcementDateSet.from_act(act)
FromAct(act) ==
    LET ds == DirectivesOf(IterateAllSaesOfAct(act.children, 1), 1)
        eds == SelectSeq(ds, LAMBDA d : d.kind = "EnforcementDate")
        Concrete(d) == FromEnforcementDate(d, act.publication_date)
        defaults == SelectSeq(eds, LAMBDA d : d.position.rtype = "None")
        positioned == SelectSeq(eds, LAMBDA d : d.position.rtype # "None")
        specials == [i \in 1..Len(positioned) |->
                        [ref |-> [positioned[i].position EXCEPT !.act = act.identifier],
                         ced |-> Concrete(positioned[i])]]
        default == IF Len(defaults) >= 1 THEN Concrete(defaults[1])
                   ELSE ConcreteEnforcementDate(NoDate, NoDate)
    IN  [ok |-> /\ \A i \in 1..Len(ds) : ds[i].kind # "None"
                /\ Len(defaults) = 1
                /\ \A i \in 1..Len(specials) :
                       DefaultIsEarliest(default, specials[i].ced)
                /\ \A i \in 1..Len(specials) : SpecialIsOpenEnded(specials[i].ced),
         default |-> default,
         specials |-> specials]

\* Mutant: only the default's dates are interesting.
InterestingDates_DefaultOnly(eds) ==
    {eds.default.from_date}
    \cup (IF eds.default.to_date # NoDate THEN {eds.default.to_date} ELSE {})

\* EnforcementDateSet.interesting_dates
InterestingDates(eds) ==
    {eds.default.from_date}
    \cup (IF eds.default.to_date # NoDate THEN {eds.default.to_date} ELSE {})
    \cup {eds.specials[i].ced.from_date : i \in 1..Len(eds.specials)}

\* fixups.py apply_fixups: REPLACEMENT_FIXUPS names SAEs of three Acts,
\* none of which is an Act of this model.
ApplyFixups(act) == act

\* ActConverter.article_modifier on every Article child
RECURSIVE ConvertChildrenFrom(_, _, _)
ConvertChildrenFrom(children, i, out) ==
    IF i > Len(children) THEN out
    ELSE LET c == children[i]
             adder == [NoModifier EXCEPT !.kind = "ActConverter.sae_metadata_adder"]
             Evolved(x) == EvolveIntoArticleWM(x.article, x.acc)
             Converted(y) == [ok |-> y.acc.ok,
                              children |-> Append(out.children, y.article)]
         IN  ConvertChildrenFrom(children, i + 1,
                 IF c.cls = "Article"
                 THEN Converted(Evolved(ArticleMapRecursive(
                          c, Reference(NoAct, NoComp, NoComp, NoComp, NoComp),
                          adder, [NoStorageAcc EXCEPT !.ok = out.ok],
                          NoPosition, TRUE)))
                 ELSE [ok |-> out.ok, children |-> Append(out.children, c)])

\* ActConverter.convert_hun_law_act(act)
ConvertHunLawAct(act_raw) ==
    LET act == ApplyFixups(act_raw)
        article_modifier(enforcement_set) ==
            MkArticleModifier("map_recursive_wm", NoModifier,
                [NoModifier EXCEPT !.kind = "EnforcementDateSet.sae_modifier",
                                   !.asserting = TRUE,
                                   !.eds = [default |-> enforcement_set.default,
                                            specials |-> enforcement_set.specials]],
                Reference(act.identifier, NoComp, NoComp, NoComp, NoComp),
                NoPosition, TRUE)
        Mapped(enforcement_set, mapped) ==
            [ok |-> mapped.acc.ok, act |-> mapped.act, eds |-> enforcement_set]
        Converted(enforcement_set, new_children, result) ==
            IF ~enforcement_set.ok
            THEN [ok |-> FALSE, act |-> result, eds |-> enforcement_set]
            ELSE IF ~new_children.ok \/ \E i \in 1..Len(new_children.children) :
                                            ~IsActChild(new_children.children[i])
            THEN [ok |-> FALSE, act |-> result, eds |-> enforcement_set]
            ELSE Mapped(enforcement_set,
                        MapArticles(result, article_modifier(enforcement_set),
                                    NoStorageAcc, NoPosition))
        WithChildren(enforcement_set, new_children) ==
            Converted(enforcement_set, new_children,
                      ActWM(act.identifier, act.publication_date, act.subject,
                            new_children.children, InterestingDates(enforcement_set)))
        WithEnforcementSet(enforcement_set) ==
            WithChildren(enforcement_set,
                         ConvertChildrenFrom(act.children, 1,
                                             [ok |-> TRUE, children |-> <<>>]))
    IN  WithEnforcementSet(FromAct(act))

----------------------------------------------------------------------------
(* ajdb/structure.py: ActSet.  An ActSet is the sequence of its acts.        *)

\* ActSet.has_act
HasAct(acts, act_id) == \E i \in 1..Len(acts) : acts[i].identifier = act_id

\* acts_map[act_id]: of the acts of one identifier the dict keeps the last.
ActsMapGet(acts, act_id) ==
    acts[CHOOSE i \in 1..Len(acts) :
             /\ acts[i].identifier = act_id
             /\ \A j \in (i + 1)..Len(acts) : acts[j].identifier # act_id]

\* ActWMProxy.act, or the ActWM itself
DerefAct(act, acc) ==
    IF act.type = "ActWM" THEN [act |-> act, acc |-> acc]
    ELSE LET r == TypedLoad(acc.act_st, ActCacheSize, act.key)
         IN  IF r.ok THEN [act |-> r.value[1], acc |-> [acc EXCEPT !.act_st = r.st]]
             ELSE [act |-> act, acc |-> Fail(acc)]

\* ActSet.replace_acts(acts): each act takes the place of the first act of
\* its identifier; an act that replaces none fails the assertion.
RECURSIVE ReplaceActsFrom(_, _, _, _)
ReplaceActsFrom(acts, i, replaced, to_replace) ==
    IF i > Len(acts) THEN <<>>
    ELSE LET id == acts[i].identifier
             hit == id \notin replaced /\ HasAct(to_replace, id)
         IN  <<IF hit THEN ActsMapGet(to_replace, id) ELSE acts[i]>>
             \o ReplaceActsFrom(acts, i + 1,
                                IF hit THEN replaced \cup {id} ELSE replaced,
                                to_replace)

ReplaceActs(acts, to_replace) ==
    [ok |-> \A i \in 1..Len(to_replace) : HasAct(acts, to_replace[i].identifier),
     acts |-> ReplaceActsFrom(acts, 1, {}, to_replace)]

\* ActSet.add_acts(acts)
AddActs(acts, new_acts) ==
    [ok |-> \A i \in 1..Len(new_acts) : ~HasAct(acts, new_acts[i].identifier),
     acts |-> acts \o new_acts]

----------------------------------------------------------------------------
(* ajdb/amender.py: AmendmentAndRepealExtractor and ActSetAmendmentApplier *)

\* AmendmentAndRepealExtractor.get_amendments_and_repeals(act, at_date)
GetAmendmentsAndRepeals(act, at_date, acc) ==
    MapSaes(act,
            [NoModifier EXCEPT !.kind = "AmendmentAndRepealExtractor.sae_walker",
                               !.date = at_date, !.act_identifier = act.identifier],
            [acc EXCEPT !.buckets = <<>>], NoPosition, FALSE).acc

\* ActSetAmendmentApplier.add_semantics_to_act
AddSemanticsToAct(act, acc) ==
    MapArticles(act,
                MkArticleModifier("ActSetAmendmentApplier.article_semantics_adder",
                                  NoModifier, NoModifier, NoPosition, NoPosition, FALSE),
                acc, NoPosition)

\* An applier as the log of a run keeps it.
LogEntry(applier) ==
    [applier_class |-> applier.applier_class, modification |-> applier.modification,
     priority |-> applier.priority, applied |-> applier.applied,
     ok |-> applier.ok]

\* The loop of apply_single_act over extracted_modifications.items()
RECURSIVE ApplyBucketsFrom(_, _, _, _, _)
ApplyBucketsFrom(acts, buckets, i, date, out) ==
    IF i > Len(buckets) \/ ~out.acc.ok THEN out
    ELSE IF ~HasAct(acts, buckets[i].act_id)
    THEN ApplyBucketsFrom(acts, buckets, i + 1, date, out)
    ELSE The({The({The({
             ApplyBucketsFrom(acts, buckets, i + 1, date,
                 [modified_acts |-> Append(out.modified_acts, parsed.act),
                  acc |-> parsed.acc,
                  log |-> out.log \o [k \in 1..Len(applied.log) |->
                                         LogEntry(applied.log[k])]])
             : parsed \in {AddSemanticsToAct(applied.act, applied.acc)}})
             : applied \in {ApplyAll(buckets[i].mods, target.act, date, target.acc)}})
             : target \in {DerefAct(ActsMapGet(acts, buckets[i].act_id), out.acc)}})

\* Mutant: a failure among the appliers is passed over, and what the loop
\* has collected is put into the ActSet.
ApplySingleAct_IgnoreFailure(acts, amending_act, date, acc) ==
    The({IF ~extracted.ok \/ extracted.buckets = <<>>
         THEN [acts |-> acts, acc |-> extracted,
               run |-> [amending_act |-> amending_act, date |-> date,
                        buckets |-> extracted.buckets, log |-> <<>>]]
         ELSE The({The({
                  [acts |-> IF replaced.ok THEN replaced.acts ELSE acts,
                   acc |-> [r.acc EXCEPT !.ok = TRUE],
                   run |-> [amending_act |-> amending_act, date |-> date,
                            buckets |-> extracted.buckets, log |-> r.log]]
                  : replaced \in {ReplaceActs(acts, r.modified_acts)}})
                  : r \in {ApplyBucketsFrom(acts, extracted.buckets, 1, date,
                               [modified_acts |-> <<>>, acc |-> extracted,
                                log |-> <<>>])}})
         : extracted \in {GetAmendmentsAndRepeals(amending_act, date, acc)}})

\* ActSetAmendmentApplier.apply_single_act(act_set, amending_act, date)
ApplySingleAct(acts, amending_act, date, acc) ==
    LET Run(extracted, log) ==
            [amending_act |-> amending_act, date |-> date,
             buckets |-> extracted.buckets, log |-> log]
    IN  The({IF ~extracted.ok \/ extracted.buckets = <<>>
             THEN [acts |-> acts, acc |-> extracted, run |-> Run(extracted, <<>>)]
             ELSE The({The({
                      IF ~r.acc.ok \/ ~replaced.ok
                      THEN [acts |-> acts, acc |-> Fail(r.acc),
                            run |-> Run(extracted, r.log)]
                      ELSE [acts |-> replaced.acts, acc |-> r.acc,
                            run |-> Run(extracted, r.log)]
                      : replaced \in {ReplaceActs(acts, r.modified_acts)}})
                      : r \in {ApplyBucketsFrom(acts, extracted.buckets, 1, date,
                                   [modified_acts |-> <<>>, acc |-> extracted,
                                    log |-> <<>>])}})
             : extracted \in {GetAmendmentsAndRepeals(amending_act, date, acc)}})

\* ActSetAmendmentApplier.apply_all_amendments(act_set, date): the acts come
\* from the generator over the act set the call was given, each is applied
\* to the act set as it stands by then.
RECURSIVE ApplyAllAmendmentsFrom(_, _, _, _)
ApplyAllAmendmentsFrom(given_acts, i, date, out) ==
    IF i > Len(given_acts) \/ ~out.acc.ok THEN out
    ELSE IF date \notin given_acts[i].interesting_dates
    THEN ApplyAllAmendmentsFrom(given_acts, i + 1, date, out)
    ELSE The({The({
             ApplyAllAmendmentsFrom(given_acts, i + 1, date,
                 [acts |-> r.acts, acc |-> r.acc, runs |-> Append(out.runs, r.run)])
             : r \in {ApplySingleAct(out.acts, act.act, date, act.acc)}})
             : act \in {DerefAct(given_acts[i], out.acc)}})

ApplyAllAmendments(acts, date, acc) ==
    ApplyAllAmendmentsFrom(acts, 1, date, [acts |-> acts, acc |-> acc, runs |-> <<>>])

----------------------------------------------------------------------------
(* The storage operations, as a caller of ajdb/structure.py performs them *)

T_a == <<"a">>
T_b == <<"b">>

Article1 == ArticleWM(1, T_a, <<SaeWM("Paragraph", 0, T_a, <<>>, 2, NoDate)>>)
Article1b == ArticleWM(1, T_a, <<SaeWM("Paragraph", 0, T_b, <<>>, 2, NoDate)>>)
Article2 ==
    ArticleWM(2, NoneText,
        <<SaeWM("Paragraph", 1, T_a, <<>>, 2, NoDate),
          MkNode("Paragraph", 2, NoneText, NoneText, T_a, T_b,
                 <<SaeWM("AlphabeticPoint", 1, T_b, <<>>, 2, 4)>>,
                 FALSE, <<>>, TRUE, 2, NoDate, NoKey)>>)
Book1 == StructuralElement("Book", 1, T_a)

ArticlePool == {Article1, Article1b, Article2}

\* The children of the Acts that get saved, as working Articles.
ActContents ==
    {<<Book1, Article1>>, <<Book1, Article1b>>,
     <<Book1, Article1, Article2>>, <<Book1, Article1b, Article2>>}

StoreAct(children) == ActWM("X", 1, "subject", children, {2})

ArticleStorage == [files |-> files.articles, cache |-> article_cache]
ActStorage == [files |-> files.acts, cache |-> act_cache]

\* am_last before any amender call.  op names the call; ok is FALSE when it
\* ended in a failed assertion or an exception; eds is what from_act made of
\* the Act a conversion was given; runs are the calls of apply_single_act a
\* day made; log and mods are those of an apply_all.
NoAmenderCall ==
    [op |-> "none", ok |-> TRUE,
     eds |-> [ok |-> TRUE, default |-> NoEds.default, specials |-> NoEds.specials],
     runs |-> <<>>, log |-> <<>>, mods |-> <<>>]

\* last before any storage call.  decoded: how many values the call decoded
\* from a blob; rewrote: the call wrote the file of its key over an existing
\* one.
NoCall == [op |-> "none", key |-> NoKey, ok |-> TRUE, from_cache |-> FALSE,
           decoded |-> 0, rewrote |-> FALSE, article |-> <<>>, act |-> <<>>, content |-> <<>>]

StoreInit ==
    /\ files = [articles |-> <<>>, acts |-> <<>>]
    /\ article_cache = <<>>
    /\ act_cache = <<>>
    /\ saved = [articles |-> {}, acts |-> {}]
    /\ last = NoCall
    /\ raw_acts = <<>>
    /\ converted = <<>>
    /\ act_set = <<>>
    /\ loop_date = NoDate
    /\ pc = "storage"
    /\ am_last = NoAmenderCall

\* ArticleWMProxy.save_article(article)
DoSaveArticle(article) ==
    LET r == SaveArticle(ArticleStorage, ArticleCacheSize, article)
    IN  /\ files' = [files EXCEPT !.articles = r.st.files]
        /\ article_cache' = r.st.cache
        /\ saved' = [saved EXCEPT !.articles =
                        @ \cup {[value |-> article, key |-> r.proxy.key]}]
        /\ last' = [NoCall EXCEPT !.op = "save_article", !.key = r.proxy.key,
                                  !.rewrote = r.rewrote,
                                  !.article = <<article>>]
        /\ UNCHANGED act_cache
        /\ UNCHANGED amender_vars

\* The children of an Act about to be saved: with held = TRUE every Article
\* a proxy is held for is that proxy (an Act loaded and changed in one place),
\* otherwise all are working Articles.
GivenChildren(content, held) ==
    [i \in 1..Len(content) |->
        IF held /\ \E r \in saved.articles : r.value = content[i]
        THEN ArticleWMProxy((CHOOSE r \in saved.articles : r.value = content[i]).key,
                            content[i].identifier)
        ELSE content[i]]

\* ActWMProxy.save_act(act)
DoSaveAct(content, held) ==
    LET act == StoreAct(GivenChildren(content, held))
        r == SaveAct(ArticleStorage, ArticleCacheSize, ActStorage, ActCacheSize, act)
    IN  /\ files' = [articles |-> r.ast.files, acts |-> r.cst.files]
        /\ article_cache' = r.ast.cache
        /\ act_cache' = r.cst.cache
        /\ saved' = [articles |-> saved.articles \cup
                         {[value |-> content[i], key |-> r.stored.children[i].key] :
                             i \in {j \in 1..Len(content) : act.children[j].cls = "Article"}},
                     acts |-> saved.acts \cup
                         {[value |-> r.stored, key |-> r.proxy.key, content |-> content]}]
        /\ last' = [NoCall EXCEPT !.op = "save_act", !.key = r.proxy.key,
                                  !.rewrote = r.rewrote,
                                  !.act = <<r.stored>>, !.content = content]
        /\ UNCHANGED amender_vars

\* ArticleWMProxy.article of a held proxy
DoLoadArticle(key) ==
    LET l == TypedLoad(ArticleStorage, ArticleCacheSize, key)
    IN  /\ article_cache' = l.st.cache
        /\ files' = [files EXCEPT !.articles = l.st.files]
        /\ last' = [NoCall EXCEPT !.op = "load_article", !.key = key, !.ok = l.ok,
                                  !.from_cache = l.from_cache,
                                  !.decoded = IF l.ok /\ ~l.from_cache THEN 1 ELSE 0,
                                  !.article = l.value]
        /\ UNCHANGED <<act_cache, saved>>
        /\ UNCHANGED amender_vars

\* ActWMProxy.act of a held proxy
DoLoadAct(key) ==
    LET l == TypedLoad(ActStorage, ActCacheSize, key)
    IN  /\ act_cache' = l.st.cache
        /\ files' = [files EXCEPT !.acts = l.st.files]
        /\ last' = [NoCall EXCEPT !.op = "load_act", !.key = key, !.ok = l.ok,
                                  !.from_cache = l.from_cache,
                                  !.decoded = IF l.ok /\ ~l.from_cache THEN 1 ELSE 0,
                                  !.act = l.value]
        /\ UNCHANGED <<article_cache, saved>>
        /\ UNCHANGED amender_vars

\* ActWMProxy.to_simple_act of a held proxy: self.act.to_simple_act()
DoToSimpleAct(key) ==
    LET l == TypedLoad(ActStorage, ActCacheSize, key)
        s == ToSimpleAct(ArticleStorage, ArticleCacheSize, l.value[1])
    IN  /\ act_cache' = l.st.cache
        /\ IF l.ok
           THEN /\ article_cache' = s.st.cache
                /\ last' = [NoCall EXCEPT !.op = "to_simple_act", !.key = key,
                                          !.ok = s.ok, !.from_cache = l.from_cache,
                                          !.decoded = s.decoded +
                                              (IF l.from_cache THEN 0 ELSE 1),
                                          !.act = IF s.ok THEN <<s.act>> ELSE <<>>]
           ELSE /\ article_cache' = article_cache
                /\ last' = [NoCall EXCEPT !.op = "to_simple_act", !.key = key,
                                          !.ok = FALSE]
        /\ UNCHANGED <<files, saved>>
        /\ UNCHANGED amender_vars

\* The keys of the Articles of the pool, stored or not
ArticlePoolKeys == {Md5(JsonDumps(ToDict(article))) : article \in ArticlePool}

\* A key under which no Act is ever stored
AbsentActKey == Md5(JsonDumps(ToDict(<<>>)))

StoreNext ==
    \/ \E article \in ArticlePool : DoSaveArticle(article)
    \/ \E content \in ActContents, held \in BOOLEAN : DoSaveAct(content, held)
    \/ \E key \in ArticlePoolKeys : DoLoadArticle(key)
    \/ \E key \in {r.key : r \in saved.acts} \cup {AbsentActKey} : DoLoadAct(key)
    \/ \E r \in saved.acts : DoToSimpleAct(r.key)

SpecStore == StoreInit /\ [][StoreNext]_vars

----------------------------------------------------------------------------
(* The cache of the Article storage, an LruDict(ArticleCacheSize), used      *)
(* through the storage and as the dict it is.  last.content keeps the keys   *)
(* the dict had before the call, last.from_cache whether the key was one.    *)

LruInit ==
    /\ files = [articles |-> <<>>, acts |-> <<>>]
    /\ article_cache = <<>>
    /\ act_cache = <<>>
    /\ saved = [articles |-> {}, acts |-> {}]
    /\ last = NoCall
    /\ raw_acts = <<>>
    /\ converted = <<>>
    /\ act_set = <<>>
    /\ loop_date = NoDate
    /\ pc = "lru"
    /\ am_last = NoAmenderCall

\* cache[key] = value
DoSetItem(key, value) ==
    /\ article_cache' = LruSetItem(article_cache, ArticleCacheSize, key, value)
    /\ last' = [NoCall EXCEPT !.op = "setitem", !.key = key,
                              !.from_cache = LruContains(article_cache, key),
                              !.article = <<value>>,
                              !.content = LruKeys(article_cache)]
    /\ UNCHANGED <<files, act_cache, saved>>
    /\ UNCHANGED amender_vars

\* cache.update(items)
DoUpdate(items) ==
    /\ article_cache' = LruUpdate(article_cache, ArticleCacheSize, items, 1)
    /\ last' = [NoCall EXCEPT !.op = "update", !.key = items[Len(items)].key,
                              !.content = LruKeys(article_cache)]
    /\ UNCHANGED <<files, act_cache, saved>>
    /\ UNCHANGED amender_vars

\* cache[key]: KeyError for a key that is not in the dict
DoGetItem(key) ==
    /\ article_cache' = IF LruContains(article_cache, key)
                        THEN LruGetItem(article_cache, key).cache
                        ELSE article_cache
    /\ last' = [NoCall EXCEPT !.op = "getitem", !.key = key,
                              !.ok = LruContains(article_cache, key),
                              !.from_cache = LruContains(article_cache, key),
                              !.article = IF LruContains(article_cache, key)
                                          THEN <<LruGetItem(article_cache, key).value>>
                                          ELSE <<>>,
                              !.content = LruKeys(article_cache)]
    /\ UNCHANGED <<files, act_cache, saved>>
    /\ UNCHANGED amender_vars

\* cache.get(key): self[key], the default None on KeyError
DoGet(key) ==
    /\ article_cache' = IF LruContains(article_cache, key)
                        THEN LruGetItem(article_cache, key).cache
                        ELSE article_cache
    /\ last' = [NoCall EXCEPT !.op = "get", !.key = key,
                              !.from_cache = LruContains(article_cache, key),
                              !.article = IF LruContains(article_cache, key)
                                          THEN <<LruGetItem(article_cache, key).value>>
                                          ELSE <<>>,
                              !.content = LruKeys(article_cache)]
    /\ UNCHANGED <<files, act_cache, saved>>
    /\ UNCHANGED amender_vars

\* del cache[key]: KeyError for a key that is not in the dict
DoDelItem(key) ==
    /\ article_cache' = IF LruContains(article_cache, key)
                        THEN SeqRemoveAt(article_cache, LruIndex(article_cache, key))
                        ELSE article_cache
    /\ last' = [NoCall EXCEPT !.op = "delitem", !.key = key,
                              !.ok = LruContains(article_cache, key),
                              !.from_cache = LruContains(article_cache, key),
                              !.content = LruKeys(article_cache)]
    /\ UNCHANGED <<files, act_cache, saved>>
    /\ UNCHANGED amender_vars

\* The pairs assigned: the key of an Article of the pool with that Article,
\* or with Article1 in its place
LruItems ==
    UNION {{[key |-> Md5(JsonDumps(ToDict(article))), value |-> value] :
                value \in {article, Article1}} : article \in ArticlePool}

LruNext ==
    \/ \E item \in LruItems : DoSetItem(item.key, item.value)
    \/ \E first, second \in LruItems : DoUpdate(<<first, second>>)
    \/ \E key \in ArticlePoolKeys : DoGetItem(key)
    \/ \E key \in ArticlePoolKeys : DoGet(key)
    \/ \E key \in ArticlePoolKeys : DoDelItem(key)
    \/ \E article \in ArticlePool : DoSaveArticle(article)
    \/ \E key \in ArticlePoolKeys : DoLoadArticle(key)

SpecLru == LruInit /\ [][LruNext]_vars

----------------------------------------------------------------------------
(* Raw Acts, as hun_law hands them to ActConverter: no node has metadata.    *)

\* A leaf SAE
RawSae(cls, identifier, text, semantic_data) ==
    MkNode(cls, identifier, NoneText, text, NoneText, NoneText, <<>>,
           FALSE, semantic_data, FALSE, NoDate, NoDate, NoKey)

\* An SAE with an intro and children
RawParent(cls, identifier, intro, children, semantic_data) ==
    MkNode(cls, identifier, NoneText, NoneText, intro, NoneText, children,
           FALSE, semantic_data, FALSE, NoDate, NoDate, NoKey)

RawArticle(identifier, title, children) ==
    MkNode("Article", identifier, title, NoneText, NoneText, NoneText, children,
           TRUE, <<>>, FALSE, NoDate, NoDate, NoKey)

BlockAmendmentContainer(children) ==
    MkNode("BlockAmendmentContainer", 0, NoneText, NoneText, NoneText, NoneText,
           children, FALSE, <<>>, FALSE, NoDate, NoDate, NoKey)

RawAct(identifier, publication_date, children) ==
    [type |-> "Act", identifier |-> identifier,
     publication_date |-> publication_date, subject |-> "subject",
     children |-> children, interesting_dates |-> {}, key |-> NoKey]

\* "This Act enters into force days days after its publication."
DefaultEnforcement(days) ==
    EnforcementDate(NoPosition, "DaysAfterPublication", days, 0, NoDate)

\* An Article made of one unnumbered Paragraph, here the closing clause
\* with the Act's enforcement directives.
ClauseArticle(identifier, text, semantic_data) ==
    RawArticle(identifier, NoneText, <<RawSae("Paragraph", 0, text, semantic_data)>>)

----------------------------------------------------------------------------
(* Applying a ModificationSet to an Act: the body of apply_single_act's loop *)
(* for one bucket, on a target Act of article 5, a subtitle and articles 6   *)
(* and 8.                                                                    *)

\* Article identifiers "5", "5/A", "6", "7" and "8" by their rank in
\* identifier_less order
Ids == [a5 |-> 10, a5A |-> 11, a6 |-> 12, a7 |-> 14, a8 |-> 16]

T_ABC == <<"A", "B", "C">>
T_ABCD == <<"A", "B", "C", "D">>
T_DEF == <<"D", "E", "F">>
T_DEFG == <<"D", "E", "F", "G">>
T_Example == <<"T", "h", "i", "s", " ", "i", "s", " ", "A", "B", "C", ",", " ", "a", "n", "d", " ", "A", "B", "C", "D">>
T_ExampleRight == <<"T", "h", "i", "s", " ", "i", "s", " ", "D", "E", "F", ",", " ", "a", "n", "d", " ", "D", "E", "F", "G">>
T_ExampleWrong == <<"T", "h", "i", "s", " ", "i", "s", " ", "D", "E", "F", ",", " ", "a", "n", "d", " ", "D", "E", "F", "D">>
T_Clause == <<"c">>

TargetActId == "T"

TargetRawAct ==
    RawAct(TargetActId, 1,
        <<RawArticle(Ids.a5, NoneText,
              <<RawSae("Paragraph", 1, T_Example, <<>>),
                RawParent("Paragraph", 2, T_ABC,
                    <<RawSae("AlphabeticPoint", 1, T_ABCD, <<>>),
                      RawSae("AlphabeticPoint", 2, T_ABC, <<>>)>>, <<>>)>>),
          StructuralElement("Subtitle", 1, T_ABC),
          RawArticle(Ids.a6, T_ABCD,
              <<RawSae("Paragraph", 0, T_ABC, <<DefaultEnforcement(0)>>)>>),
          RawArticle(Ids.a8, T_DEF,
              <<RawSae("Paragraph", 0, T_ABC, <<>>)>>)>>)

TRef(article, paragraph, point) ==
    Reference(TargetActId,
              IF article = 0 THEN NoComp ELSE One(article),
              IF paragraph = 0 THEN NoComp ELSE One(paragraph),
              IF point = 0 THEN NoComp ELSE One(point),
              NoComp)

\* StructuralReference(act, special = SubtitleArticleCombo(position, article_id))
SpecialRef(special, article) ==
    StructuralReference(TargetActId, 0, "", 0, NoneText, special, article)

\* The clause of an amending Act that carries a directive, and for a
\* BlockAmendment the quoted block it brings.
SourceSae(children) ==
    IF children = <<>>
    THEN SaeWM("Paragraph", 1, T_Clause, <<>>, 1, NoDate)
    ELSE [SaeWM("Paragraph", 1, NoneText, <<>>, 1, NoDate) EXCEPT
             !.intro = T_Clause,
             !.children = <<BlockAmendmentContainer(children)>>]

Mod(modification, children) ==
    [sae |-> SourceSae(children), modification |-> modification]

ModificationPool ==
    { Mod(TextAmendment(TRef(Ids.a5, 0, 0), T_ABC, T_DEF), <<>>),
      Mod(TextAmendment(TRef(Ids.a5, 0, 0), T_ABCD, T_DEFG), <<>>),
      Mod(Repeal(TRef(Ids.a5, 2, 1), T_ABC), <<>>),
      Mod(ArticleTitleAmendment(TRef(Ids.a6, 0, 0), T_ABC, T_DEF), <<>>),
      Mod(Repeal(TRef(Ids.a5, 2, 2), NoneText), <<>>),
      Mod(Repeal(TRef(Ids.a5, 1, 0), NoneText), <<>>),
      Mod(Repeal(TRef(Ids.a6, 0, 0), NoneText), <<>>),
      Mod(Repeal(TRef(Ids.a5, 3, 0), NoneText), <<>>),
      Mod(Repeal(StructuralReference(TargetActId, 0, "Subtitle", 2, NoneText, "", 0),
                 NoneText), <<>>),
      Mod(BlockAmendment(TRef(Ids.a5A, 0, 0), TRUE),
          <<RawArticle(Ids.a5A, NoneText, <<RawSae("Paragraph", 0, T_ABC, <<>>)>>)>>),
      Mod(BlockAmendment(TRef(Ids.a7, 0, 0), TRUE),
          <<RawArticle(Ids.a7, NoneText, <<RawSae("Paragraph", 0, T_ABC, <<>>)>>)>>),
      Mod(BlockAmendment(TRef(Ids.a5, 2, 3), TRUE),
          <<RawSae("AlphabeticPoint", 3, T_ABC, <<>>)>>),
      Mod(ArticleTitleAmendment(
              Reference(TargetActId, <<Ids.a6, Ids.a8>>, NoComp, NoComp, NoComp),
              T_ABC, T_DEF), <<>>),
      Mod(BlockAmendment(TRef(Ids.a6, 0, 0), TRUE),
          <<RawArticle(Ids.a6, T_DEF, <<RawSae("Paragraph", 0, T_DEF, <<>>)>>)>>),
      Mod(BlockAmendment(SpecialRef("BEFORE_WITHOUT_ARTICLE", Ids.a6), TRUE),
          <<StructuralElement("Subtitle", 2, T_DEF)>>),
      Mod(BlockAmendment(SpecialRef("AFTER", Ids.a8), TRUE),
          <<StructuralElement("Subtitle", 3, T_DEF)>>),
      Mod(BlockAmendment(StructuralReference(TargetActId, 0, "Subtitle", 2, NoneText, "", 0),
                         TRUE),
          <<StructuralElement("Subtitle", 2, T_DEF)>>),
      Mod(Repeal(StructuralReference(TargetActId, 0, "Subtitle", 1, NoneText, "", 0),
                 NoneText), <<>>),
      Mod(Repeal(StructuralReference(TargetActId, 1, "Subtitle", 1, NoneText, "", 0),
                 NoneText), <<>>),
      Mod(Repeal(SpecialRef("BEFORE_WITHOUT_ARTICLE", Ids.a5), NoneText), <<>>) }

MaxMods == 2
ApplyDates == {1, 2}

ModificationLists ==
    UNION {[1..n -> ModificationPool] : n \in 1..MaxMods}

ApplyInit ==
    /\ files = [articles |-> <<>>, acts |-> <<>>]
    /\ article_cache = <<>>
    /\ act_cache = <<>>
    /\ saved = [articles |-> {}, acts |-> {}]
    /\ last = NoCall
    /\ raw_acts = <<TargetRawAct>>
    /\ converted = <<ConvertHunLawAct(TargetRawAct).act>>
    /\ act_set = converted
    /\ loop_date \in ApplyDates
    /\ pc = "apply"
    /\ am_last = NoAmenderCall

\* act = modification_set.apply_all(act, date); act = add_semantics_to_act(act);
\* act_set.replace_acts([act]) for the bucket (act_id, modifications)
DoApplyAll(act_id, modifications) ==
    /\ pc = "apply"
    /\ HasAct(act_set, act_id)
    /\ \E target \in {DerefAct(ActsMapGet(act_set, act_id),
                               MkAcc(ArticleStorage, ActStorage))} :
       \E applied \in {ApplyAll(modifications, target.act, loop_date, target.acc)} :
       \E parsed \in {AddSemanticsToAct(applied.act, applied.acc)} :
       \E replaced \in {ReplaceActs(act_set, <<parsed.act>>)} :
           /\ act_set' = IF parsed.acc.ok /\ replaced.ok
                         THEN replaced.acts ELSE act_set
           /\ pc' = IF parsed.acc.ok /\ replaced.ok THEN "done" ELSE "fatal"
           /\ am_last' = [NoAmenderCall EXCEPT
                              !.op = "apply_all",
                              !.ok = parsed.acc.ok /\ replaced.ok,
                              !.log = applied.log,
                              !.mods = modifications]
           /\ article_cache' = parsed.acc.st.cache
           /\ act_cache' = parsed.acc.act_st.cache
    /\ UNCHANGED <<files, saved, last, raw_acts, converted, loop_date>>

ApplyNext ==
    \E modifications \in ModificationLists : DoApplyAll(TargetActId, modifications)

SpecApply == ApplyInit /\ [][ApplyNext]_vars

----------------------------------------------------------------------------
(* generate_test_data.py do_amendments: the raw Acts are converted; then,    *)
(* day by day, the Acts published that day join the ActSet and the           *)
(* amendments entering into force that day are applied.                      *)

\* target_date
TargetDate == 4

T_Original == <<"O", "r", "i", "g", "i", "n", "a", "l", " ", "t", "e", "x", "t", " ", "h", "e", "r", "e", ".">>
T_Modified == <<"M", "o", "d", "i", "f", "i", "e", "d", " ", "t", "e", "x", "t", " ", "h", "e", "r", "e", ".">>
T_OriginalWord == <<"O", "r", "i", "g", "i", "n", "a", "l">>
T_ModifiedWord == <<"M", "o", "d", "i", "f", "i", "e", "d">>

XActId == "X"
YActId == "Y"

\* X/§article/(paragraph), as a directive of another Act names it
XRef(article, paragraph) ==
    Reference(XActId, One(article), One(paragraph), NoComp, NoComp)

\* §article/(paragraph) of the Act itself, as an EnforcementDate names it
OwnRef(article, paragraph) ==
    Reference(NoAct, One(article), One(paragraph), NoComp, NoComp)

\* §article of the Act itself, as an EnforcementDate names it
OwnArticleRef(article) ==
    Reference(NoAct, One(article), NoComp, NoComp, NoComp)

\* The enforcement clauses of Act X: in force the day after publication;
\* three days after; (2) of §1 later than the rest; (2) earlier than the
\* rest; (2) with an end date; on the first of the month after publication;
\* §1 on day 3 and its (2) on day 4, declared in either order.
XEnforcements ==
    { <<DefaultEnforcement(1)>>,
      <<DefaultEnforcement(3)>>,
      <<DefaultEnforcement(1), EnforcementDate(OwnRef(1, 2), "Date", 3, 0, NoDate)>>,
      <<DefaultEnforcement(3),
        EnforcementDate(OwnRef(1, 2), "DaysAfterPublication", 1, 0, NoDate)>>,
      <<DefaultEnforcement(1), EnforcementDate(OwnRef(1, 2), "Date", 3, 0, 4)>>,
      <<EnforcementDate(NoPosition, "DayInMonthAfterPublication", 1, 1, NoDate)>>,
      <<DefaultEnforcement(1),
        EnforcementDate(OwnArticleRef(1), "Date", 3, 0, NoDate),
        EnforcementDate(OwnRef(1, 2), "Date", 4, 0, NoDate)>>,
      <<DefaultEnforcement(1),
        EnforcementDate(OwnRef(1, 2), "Date", 4, 0, NoDate),
        EnforcementDate(OwnArticleRef(1), "Date", 3, 0, NoDate)>> }

\* Act X, published on day 1: §1 with two paragraphs, §2 its closing clause.
RawX(enforcement) ==
    RawAct(XActId, 1,
        <<RawArticle(1, NoneText,
              <<RawSae("Paragraph", 1, T_Original, <<>>),
                RawSae("Paragraph", 2, T_b, <<>>)>>),
          ClauseArticle(2, T_Clause, enforcement)>>)

TheAmendment == TextAmendment(XRef(1, 1), T_OriginalWord, T_ModifiedWord)

\* A clause "X/§1 is supplemented with the following (3):" and the block it
\* quotes
InsertionClause(identifier, quoted) ==
    RawParent("Paragraph", identifier, T_Clause, <<BlockAmendmentContainer(quoted)>>,
              <<BlockAmendment(XRef(1, 3), TRUE)>>)

\* The amending Article of Act Y: one unnumbered paragraph with the text
\* amendment; (1) with the text amendment and (2) repealing X/§1/(2); a
\* clause inserting X/§1/(3), a paragraph with points a) and b); (1)
\* amending the text of X/§1/(2) and (2) the inserting clause, quoting a
\* point where a paragraph belongs.
YArticles ==
    { RawArticle(1, NoneText, <<RawSae("Paragraph", 0, T_Clause, <<TheAmendment>>)>>),
      RawArticle(1, NoneText,
          <<RawSae("Paragraph", 1, T_Clause, <<TheAmendment>>),
            RawSae("Paragraph", 2, T_Clause, <<Repeal(XRef(1, 2), NoneText)>>)>>),
      RawArticle(1, NoneText,
          <<InsertionClause(0, <<RawParent("Paragraph", 3, T_Clause,
                                     <<RawSae("AlphabeticPoint", 1, T_a, <<>>),
                                       RawSae("AlphabeticPoint", 2, T_b, <<>>)>>,
                                     <<>>)>>)>>),
      RawArticle(1, NoneText,
          <<RawSae("Paragraph", 1, T_Clause, <<TextAmendment(XRef(1, 2), T_b, T_a)>>),
            InsertionClause(2, <<RawSae("AlphabeticPoint", 3, T_a, <<>>)>>)>>) }

\* The enforcement clauses of Act Y: in force on the day of publication; the
\* day after; (2) of §1 a day later than the rest; three days after
\* publication; on day 1, whenever it is published.
YEnforcements ==
    { <<DefaultEnforcement(0)>>,
      <<DefaultEnforcement(1)>>,
      <<DefaultEnforcement(1),
        EnforcementDate(OwnRef(1, 2), "DaysAfterPublication", 2, 0, NoDate)>>,
      <<DefaultEnforcement(3)>>,
      <<EnforcementDate(NoPosition, "Date", 1, 0, NoDate)>> }

YPublicationDates == {1, 2}

RawY(article, enforcement, publication_date) ==
    RawAct(YActId, publication_date,
           <<article, ClauseArticle(2, T_Clause, enforcement)>>)

RawActLists ==
    { <<RawX(xe), RawY(ya, ye, yp)>> :
          xe \in XEnforcements, ya \in YArticles, ye \in YEnforcements,
          yp \in YPublicationDates }

DaysInit ==
    /\ files = [articles |-> <<>>, acts |-> <<>>]
    /\ article_cache = <<>>
    /\ act_cache = <<>>
    /\ saved = [articles |-> {}, acts |-> {}]
    /\ last = NoCall
    /\ raw_acts \in RawActLists
    /\ converted = <<>>
    /\ act_set = <<>>
    /\ loop_date = NoDate
    /\ pc = "convert"
    /\ am_last = NoAmenderCall

\* min(converted_acts.keys())
MinPublicationDate(acts) ==
    CHOOSE d \in {acts[i].publication_date : i \in 1..Len(acts)} :
        \A i \in 1..Len(acts) : d <= acts[i].publication_date

\* converted_acts[date]: the Acts published on date, in conversion order
PublishedOn(acts, date) == SelectSeq(acts, LAMBDA a : a.publication_date = date)

\* One turn of the first loop: act = ActConverter.convert_hun_law_act(act_raw);
\* converted_acts[act.publication_date].append(act).  After the last Act,
\* act_set = ActSet() and date = min(converted_acts.keys()).
DoConvert ==
    /\ pc = "convert"
    /\ Len(converted) < Len(raw_acts)
    /\ \E r \in {ConvertHunLawAct(raw_acts[Len(converted) + 1])} :
       \E is_last \in {Len(converted) + 1 = Len(raw_acts)} :
           /\ converted' = IF r.ok THEN Append(converted, r.act) ELSE converted
           /\ pc' = IF ~r.ok THEN "fatal"
                    ELSE IF is_last THEN "loop" ELSE "convert"
           /\ loop_date' = IF r.ok /\ is_last
                           THEN MinPublicationDate(Append(converted, r.act))
                           ELSE loop_date
           /\ am_last' = [NoAmenderCall EXCEPT
                             !.op = "convert_hun_law_act", !.ok = r.ok,
                             !.eds = [ok |-> r.eds.ok, default |-> r.eds.default,
                                      specials |-> r.eds.specials]]
    /\ UNCHANGED <<files, article_cache, act_cache, saved, last, raw_acts, act_set>>

\* One turn of the while loop: the Acts published on date join the ActSet,
\* apply_all_amendments(act_set, date), date = date.add_days(1).
DoDay ==
    /\ pc = "loop"
    /\ loop_date <= TargetDate
    /\ \E ingested \in {act_set \o PublishedOn(converted, loop_date)} :
       \E r \in {ApplyAllAmendments(ingested, loop_date,
                                    MkAcc(ArticleStorage, ActStorage))} :
           /\ act_set' = IF r.acc.ok THEN r.acts ELSE ingested
           /\ pc' = IF ~r.acc.ok THEN "fatal"
                    ELSE IF loop_date + 1 <= TargetDate THEN "loop" ELSE "done"
           /\ loop_date' = IF r.acc.ok THEN loop_date + 1 ELSE loop_date
           /\ am_last' = [NoAmenderCall EXCEPT
                             !.op = "apply_all_amendments", !.ok = r.acc.ok,
                             !.runs = r.runs]
           /\ article_cache' = r.acc.st.cache
           /\ act_cache' = r.acc.act_st.cache
    /\ UNCHANGED <<files, saved, last, raw_acts, converted>>

DaysNext == DoConvert \/ DoDay

SpecDays == DaysInit /\ [][DaysNext]_vars

\* while date <= target_date: a turn of the loop either fails, which ends the
\* run, or moves on to the next date.
LoopTurn ==
    /\ pc = "loop"
    /\ loop_date <= TargetDate
    /\ pc' \in {"loop", "done", "fatal"}
    /\ loop_date' \in {loop_date, loop_date + 1}

\* do_amendments is one sequential run: its while loop goes on, a day at a
\* time, until the target date is passed or an assertion fails.
SpecDaysFair == SpecDays /\ WF_<<pc, loop_date>>(LoopTurn)

----------------------------------------------------------------------------
(* ajdb/structure.py ActSet: add_acts and replace_acts called in any order,  *)
(* starting from ActSet().                                                   *)

\* The ActSet holds at most this many Acts
MaxActs == 3

\* A call is given at most this many Acts
MaxBatch == 2

\* Two Acts, each in two versions
ActPool ==
    {ActWM(identifier, 1, subject, <<>>, {}) :
         identifier \in {XActId, YActId}, subject \in {"first", "second"}}

ActBatches == UNION {[1..n -> ActPool] : n \in 1..MaxBatch}

ActSetInit ==
    /\ files = [articles |-> <<>>, acts |-> <<>>]
    /\ article_cache = <<>>
    /\ act_cache = <<>>
    /\ saved = [articles |-> {}, acts |-> {}]
    /\ last = NoCall
    /\ raw_acts = <<>>
    /\ converted = <<>>
    /\ act_set = <<>>
    /\ loop_date = NoDate
    /\ pc = "act_set"
    /\ am_last = NoAmenderCall

\* act_set = act_set.add_acts(acts); a failed assertion ends the program.
DoAddActs(acts) ==
    /\ pc = "act_set"
    /\ Len(act_set) + Len(acts) <= MaxActs
    /\ \E r \in {AddActs(act_set, acts)} :
           /\ act_set' = IF r.ok THEN r.acts ELSE act_set
           /\ pc' = IF r.ok THEN "act_set" ELSE "fatal"
           /\ am_last' = [NoAmenderCall EXCEPT !.op = "add_acts", !.ok = r.ok]
    /\ UNCHANGED <<files, article_cache, act_cache, saved, last, raw_acts,
                   converted, loop_date>>

\* act_set = act_set.replace_acts(acts)
DoReplaceActs(acts) ==
    /\ pc = "act_set"
    /\ \E r \in {ReplaceActs(act_set, acts)} :
           /\ act_set' = IF r.ok THEN r.acts ELSE act_set
           /\ pc' = IF r.ok THEN "act_set" ELSE "fatal"
           /\ am_last' = [NoAmenderCall EXCEPT !.op = "replace_acts", !.ok = r.ok]
    /\ UNCHANGED <<files, article_cache, act_cache, saved, last, raw_acts,
                   converted, loop_date>>

ActSetNext ==
    \/ \E acts \in ActBatches : DoAddActs(acts)
    \/ \E acts \in ActBatches : DoReplaceActs(acts)

SpecActSet == ActSetInit /\ [][ActSetNext]_vars

----------------------------------------------------------------------------
(* Content-addressed storage: the claims *)

ArticleBlobCount == Cardinality(DOMAIN files.articles)
ActBlobCount == Cardinality(DOMAIN files.acts)

ArticlesOf(content) ==
    {content[i] : i \in {j \in 1..Len(content) : content[j].cls = "Article"}}

\* The step saves an Article that save() has been given before.
ResavesArticle ==
    /\ last'.op = "save_article"
    /\ \E r \in saved.articles : r.value = last'.article[1]

\* The step saves an Act that save_act() has been given before.
ResavesAct ==
    /\ last'.op = "save_act"
    /\ \E r \in saved.acts : r.content = last'.content

\* C3: saving the same value twice returns the same key, the key is the
\* digest of the value's canonical JSON whatever the store holds, and the
\* second save adds no blob.
C3_SaveTwiceSameKey ==
    [][ /\ \A r1, r2 \in saved'.articles : r1.value = r2.value => r1.key = r2.key
        /\ \A r1, r2 \in saved'.acts :
               (r1.content = r2.content \/ r1.value = r2.value) => r1.key = r2.key
        /\ \A r \in saved'.articles : r.key = Md5(JsonDumps(ToDict(r.value)))
        /\ \A r \in saved'.acts : r.key = Md5(JsonDumps(ToDict(r.value)))
        /\ (ResavesArticle \/ ResavesAct) =>
               /\ ArticleBlobCount' = ArticleBlobCount
               /\ ActBlobCount' = ActBlobCount
      ]_vars

\* An Article is saved on its own after an Act holding it was saved.
C3_Witness ==
    /\ last.op = "save_article"
    /\ \E r \in saved.acts : last.article[1] \in ArticlesOf(r.content)
    /\ ActBlobCount >= 2

\* The simple Act of an Act whose Articles are all working Articles.
SimpleOfContent(content) ==
    ToSimpleAct([files |-> <<>>, cache |-> <<>>], 0, StoreAct(content)).act

DiffersInOneArticle(new, old) ==
    LET added == ArticlesOf(new) \ ArticlesOf(old)
        gone == ArticlesOf(old) \ ArticlesOf(new)
    IN  /\ Cardinality(added) = 1
        /\ Cardinality(gone) <= 1
        /\ \A a \in added, g \in gone : a.identifier = g.identifier

SavedArticleValues == {r.value : r \in saved.articles}
SavedActContents == {r.content : r \in saved.acts}

BlobsAreDistinctContents ==
    /\ ArticleBlobCount = Cardinality(SavedArticleValues)
    /\ ActBlobCount = Cardinality(SavedActContents)

\* C5 as stated: blobs are the distinct contents, and saving an Act that
\* differs from a saved Act in exactly one Article adds exactly one article
\* blob and exactly one act blob.
C5_AsStated ==
    [][ /\ BlobsAreDistinctContents'
        /\ (/\ last'.op = "save_act"
            /\ \E r \in saved.acts : DiffersInOneArticle(last'.content, r.content))
           => /\ ArticleBlobCount' = ArticleBlobCount + 1
              /\ ActBlobCount' = ActBlobCount + 1
      ]_vars

\* C5 (amended): blobs are the distinct contents; an Act that differs from a
\* saved Act in exactly one Article adds one article blob when that Article's
\* content was never saved and none otherwise, and one act blob when the
\* Act's content was never saved and none otherwise.
C5_BlobsAreDistinctContents ==
    [][ /\ BlobsAreDistinctContents'
        /\ (/\ last'.op = "save_act"
            /\ \E r \in saved.acts : DiffersInOneArticle(last'.content, r.content))
           => /\ ArticleBlobCount' = ArticleBlobCount +
                      Cardinality(ArticlesOf(last'.content) \ SavedArticleValues)
              /\ Cardinality(ArticlesOf(last'.content) \ SavedArticleValues) <= 1
              /\ ActBlobCount' = ActBlobCount +
                      (IF last'.content \in SavedActContents THEN 0 ELSE 1)
      ]_vars

\* An Act that differs from a saved Act in one Article has been saved while
\* every Article of it was stored already.
C5_Witness ==
    /\ last.op = "save_act"
    /\ \E r \in saved.acts : DiffersInOneArticle(last.content, r.content)
    /\ ArticleBlobCount = 3
    /\ ActBlobCount = 3
    /\ last.content = <<Book1, Article1b, Article2>>
    /\ <<Book1, Article1, Article2>> \in SavedActContents
    /\ <<Book1, Article1b>> \in SavedActContents


----------------------------------------------------------------------------
(* The amendment engine: the claims *)

\* The Article of an Act with the given identifier, the child of a node with
\* the given identifier
ChildOf(children, identifier) ==
    children[CHOOSE i \in 1..Len(children) :
                 /\ children[i].identifier = identifier
                 /\ ~IsStructuralElement(children[i])]

HasChild(children, identifier) ==
    \E i \in 1..Len(children) :
        children[i].identifier = identifier /\ ~IsStructuralElement(children[i])

TheAct(act_id) == ActsMapGet(act_set, act_id)

\* The original text an applier of the log replaces
OriginalTextOf(modification) ==
    IF modification.kind = "TextAmendment" THEN modification.original_text
    ELSE modification.text

IsExamplePair(mods) ==
    /\ Len(mods) = 2
    /\ {mods[1].modification, mods[2].modification} =
           {TextAmendment(TRef(Ids.a5, 0, 0), T_ABC, T_DEF),
            TextAmendment(TRef(Ids.a5, 0, 0), T_ABCD, T_DEFG)}

ExampleText == ChildOf(ChildOf(TheAct(TargetActId).children, Ids.a5).children, 1).text

\* C1: apply_all runs its appliers in non-increasing priority; a text
\* replacement's priority is the length of its original text and every other
\* applier's is 0; replacing ABC->DEF and ABCD->DEFG in 'This is ABC, and
\* ABCD', given in either order, yields 'This is DEF, and DEFG'.
C1_PriorityOrder ==
    am_last.op = "apply_all" =>
        /\ \A i, j \in 1..Len(am_last.log) :
               i < j => am_last.log[i].priority >= am_last.log[j].priority
        /\ \A i \in 1..Len(am_last.log) :
               am_last.log[i].priority =
                   IF am_last.log[i].applier_class = "TextReplacementApplier"
                   THEN Len(OriginalTextOf(am_last.log[i].modification))
                   ELSE 0
        /\ \A i, j \in 1..Len(am_last.log) :
               (/\ am_last.log[i].applier_class = "TextReplacementApplier"
                /\ am_last.log[j].applier_class = "TextReplacementApplier"
                /\ Len(OriginalTextOf(am_last.log[i].modification)) >
                       Len(OriginalTextOf(am_last.log[j].modification)))
               => i < j
        /\ IsExamplePair(am_last.mods) =>
               /\ am_last.ok
               /\ ExampleText = T_ExampleRight
               /\ ExampleText # T_ExampleWrong

\* The two replacements of the example were given shorter first, the longer
\* ran first, and the text came out right.
C1_Witness ==
    /\ am_last.op = "apply_all"
    /\ IsExamplePair(am_last.mods)
    /\ am_last.mods[1].modification.original_text = T_ABC
    /\ Len(am_last.log) = 2
    /\ am_last.log[1].priority = 4
    /\ am_last.log[2].priority = 3
    /\ ExampleText = T_ExampleRight

\* The paragraph X/§1/(1) and the amending clause of Y, the first paragraph
\* of its §1, in the acts of an ActSet
XParagraph(acts) ==
    ChildOf(ChildOf(ActsMapGet(acts, XActId).children, 1).children, 1)

AmendingClause(acts) == ChildOf(ActsMapGet(acts, YActId).children, 1).children[1]

\* The ActSet apply_all_amendments is given on the day about to be worked on
Ingested == act_set \o PublishedOn(converted, loop_date)

\* X/§1/(1) reads 'Original text here.', and the clause of Y that carries the
\* amendment of 'Original' to 'Modified' enters into force on the day about
\* to be worked on.
AmendmentIsDue ==
    /\ pc = "loop"
    /\ HasAct(Ingested, XActId)
    /\ HasAct(Ingested, YActId)
    /\ XParagraph(Ingested).text = T_Original
    /\ ~AmendingClause(Ingested).sd_none
    /\ \E i \in 1..Len(AmendingClause(Ingested).semantic_data) :
           AmendingClause(Ingested).semantic_data[i] = TheAmendment
    /\ AmendingClause(Ingested).from_date = loop_date
    /\ AmendingClause(Ingested).to_date \in {NoDate} \cup (loop_date..TargetDate)

\* C2: when Act X's paragraph X/§1/(1) reads 'Original text here.' and the
\* clause of Act Y carrying TextAmendment(X/§1/(1), 'Original', 'Modified')
\* enters into force, the day's apply_all_amendments succeeds and leaves an
\* ActSet in which X/§1/(1) reads 'Modified text here.' and the text of Y's
\* amending clause is the single space.
C2_EndToEndAmendment ==
    [][ AmendmentIsDue =>
            /\ am_last'.op = "apply_all_amendments"
            /\ am_last'.ok
            /\ XParagraph(act_set').text = T_Modified
            /\ AmendingClause(act_set').text = <<" ">>
      ]_vars

\* Act Y, published after Act X, has amended X/§1/(1): the run of Y applied
\* a text replacement, the paragraph reads 'Modified text here.' and Y's
\* clause is blank.
C2_Witness ==
    /\ am_last.op = "apply_all_amendments"
    /\ am_last.ok
    /\ \E i \in 1..Len(am_last.runs) :
           /\ am_last.runs[i].amending_act.identifier = YActId
           /\ \E k \in 1..Len(am_last.runs[i].log) :
                  /\ am_last.runs[i].log[k].applier_class = "TextReplacementApplier"
                  /\ am_last.runs[i].log[k].applied
    /\ ActsMapGet(act_set, YActId).publication_date >
           ActsMapGet(act_set, XActId).publication_date
    /\ XParagraph(act_set).text = T_Modified
    /\ AmendingClause(act_set).text = <<" ">>

\* The SAEs of the Acts of the ActSet
RECURSIVE SaesOfActs(_, _)
SaesOfActs(acts, i) ==
    IF i > Len(acts) THEN <<>>
    ELSE IterateAllSaesOfAct(acts[i].children, 1) \o SaesOfActs(acts, i + 1)

\* C6 as stated: every SAE of every working Act has a from_date, and a
\* to_date, when it has one, that is not before the from_date.
C6_IntervalsAreOrdered ==
    \A i \in 1..Len(SaesOfActs(act_set, 1)) :
        /\ SaesOfActs(act_set, 1)[i].from_date # NoDate
        /\ SaesOfActs(act_set, 1)[i].to_date # NoDate =>
               SaesOfActs(act_set, 1)[i].to_date >= SaesOfActs(act_set, 1)[i].from_date

\* The SAEs below the children of a node, each with its Reference
RECURSIVE SaesWithReferences(_, _, _)
SaesWithReferences(children, parent_reference, i) ==
    IF i > Len(children) THEN <<>>
    ELSE (IF children[i].cls = "Article"
          THEN SaesWithReferences(
                   children[i].children,
                   RelativeTo(RelativeReference(children[i]), parent_reference), 1)
          ELSE IF IsTraversedSae(children[i])
          THEN <<[reference |-> RelativeTo(RelativeReference(children[i]),
                                           parent_reference),
                  sae |-> children[i]]>>
               \o SaesWithReferences(
                      children[i].children,
                      RelativeTo(RelativeReference(children[i]), parent_reference), 1)
          ELSE <<>>)
         \o SaesWithReferences(children, parent_reference, i + 1)

\* The SAEs of the amending Act of a run, each with its Reference
SaesOfAmendingAct(run) ==
    SaesWithReferences(run.amending_act.children,
                       Reference(run.amending_act.identifier,
                                 NoComp, NoComp, NoComp, NoComp), 1)

\* The modifications the run's extraction put in the amending Act's own bucket
OwnBucket(run) ==
    UNION {{run.buckets[b].mods[k].modification : k \in 1..Len(run.buckets[b].mods)} :
               b \in {c \in 1..Len(run.buckets) :
                          run.buckets[c].act_id = run.amending_act.identifier}}

HasDirective(sae) ==
    /\ ~sae.sd_none
    /\ \E i \in 1..Len(sae.semantic_data) : sae.semantic_data[i].kind # "EnforcementDate"

\* C7 as stated: after the extraction on an amending Act, its own bucket has
\* a Repeal of every SAE of the Act that carries a directive other than an
\* EnforcementDate.
C7_AsStated ==
    (am_last.op = "apply_all_amendments" /\ am_last.ok) =>
        \A r \in 1..Len(am_last.runs) :
            \A i \in 1..Len(SaesOfAmendingAct(am_last.runs[r])) :
                HasDirective(SaesOfAmendingAct(am_last.runs[r])[i].sae) =>
                    Repeal(SaesOfAmendingAct(am_last.runs[r])[i].reference, NoneText)
                        \in OwnBucket(am_last.runs[r])

\* The SAE's enforcement interval holds the date
InForceOn(sae, date) ==
    /\ sae.from_date <= date
    /\ sae.to_date = NoDate \/ date <= sae.to_date

\* C7 (amended): after the extraction on an amending Act for a date, its own
\* bucket has a Repeal of every SAE of the Act that is in force on that date
\* and carries a directive other than an EnforcementDate, and of no other SAE.
C7_RepealOfInForceClauses ==
    (am_last.op = "apply_all_amendments" /\ am_last.ok) =>
        \A r \in 1..Len(am_last.runs) :
            \A i \in 1..Len(SaesOfAmendingAct(am_last.runs[r])) :
                (/\ HasDirective(SaesOfAmendingAct(am_last.runs[r])[i].sae)
                 /\ InForceOn(SaesOfAmendingAct(am_last.runs[r])[i].sae,
                              am_last.runs[r].date))
                <=> Repeal(SaesOfAmendingAct(am_last.runs[r])[i].reference, NoneText)
                        \in OwnBucket(am_last.runs[r])

\* Act Y was run on a day when its (1) was in force and its (2), which
\* carries a Repeal, was not yet: its own bucket has the Repeal of (1) alone.
C7_Witness ==
    /\ am_last.op = "apply_all_amendments"
    /\ am_last.ok
    /\ \E r \in 1..Len(am_last.runs) :
           /\ am_last.runs[r].amending_act.identifier = YActId
           /\ OwnBucket(am_last.runs[r]) =
                  {Repeal(Reference(YActId, One(1), One(1), NoComp, NoComp), NoneText)}
           /\ \E i \in 1..Len(SaesOfAmendingAct(am_last.runs[r])) :
                  /\ HasDirective(SaesOfAmendingAct(am_last.runs[r])[i].sae)
                  /\ ~InForceOn(SaesOfAmendingAct(am_last.runs[r])[i].sae,
                                am_last.runs[r].date)

\* after is before with every SAE the position covers turned into a node of
\* its class and identifier with the text ' ', and nothing else changed
RECURSIVE IsRepealedBelow(_, _, _, _)
IsRepealedBelow(before, after, reference, position) ==
    IF RefContains(position, reference)
    THEN /\ after.cls = before.cls
         /\ after.identifier = before.identifier
         /\ after.text = <<" ">>
    ELSE /\ Len(after.children) = Len(before.children)
         /\ after = [before EXCEPT !.children = after.children]
         /\ \A i \in 1..Len(before.children) :
                IF IsTraversedSae(before.children[i])
                THEN IsRepealedBelow(
                         before.children[i], after.children[i],
                         RelativeTo(RelativeReference(before.children[i]), reference),
                         position)
                ELSE after.children[i] = before.children[i]

ArticleReference(act, article) ==
    Reference(act.identifier, One(article.identifier), NoComp, NoComp, NoComp)

\* A RepealApplier that ran to its end on a Reference
IsReferenceRepeal(entry) ==
    /\ entry.applier_class = "RepealApplier"
    /\ entry.ok
    /\ entry.modification.position.rtype = "Reference"

\* The Act's children keep their number and order, and all but the Articles
\* are the same
KeepsActChildren(entry) ==
    /\ Len(entry.after.children) = Len(entry.before.children)
    /\ \A i \in 1..Len(entry.before.children) :
           /\ entry.after.children[i].cls = entry.before.children[i].cls
           /\ entry.after.children[i].identifier = entry.before.children[i].identifier
           /\ entry.before.children[i].cls # "Article" =>
                  entry.after.children[i] = entry.before.children[i]

\* C8: a Repeal without text on a Reference below the Article level turns
\* each SAE it covers into a node of the same class and identifier with the
\* text ' ' and leaves every parent's children the same in number and order
\* and every other node as it was; on an Article-level Reference it keeps
\* the Article's identifier and place and every other child of the Act.
C8_RepealKeepsPlace ==
    am_last.op = "apply_all" =>
        \A e \in 1..Len(am_last.log) :
            IsReferenceRepeal(am_last.log[e]) =>
                /\ KeepsActChildren(am_last.log[e])
                /\ \A i \in 1..Len(am_last.log[e].before.children) :
                       am_last.log[e].before.children[i].cls = "Article" =>
                           IF LastLevel(am_last.log[e].modification.position) = 1
                           THEN \/ RefContains(
                                       am_last.log[e].modification.position,
                                       ArticleReference(am_last.log[e].before,
                                                        am_last.log[e].before.children[i]))
                                \/ am_last.log[e].after.children[i] =
                                       am_last.log[e].before.children[i]
                           ELSE IsRepealedBelow(
                                    am_last.log[e].before.children[i],
                                    am_last.log[e].after.children[i],
                                    ArticleReference(am_last.log[e].before,
                                                     am_last.log[e].before.children[i]),
                                    am_last.log[e].modification.position)

\* Point b) of T/§5/(2) and the Article T/§6 have been repealed: (2) still
\* has its two points, the second blank, and the Act its four children.
C8_Witness ==
    /\ am_last.op = "apply_all"
    /\ am_last.ok
    /\ Len(am_last.log) = 2
    /\ \A e \in 1..2 : IsReferenceRepeal(am_last.log[e]) /\ am_last.log[e].applied
    /\ {am_last.log[e].modification.position : e \in 1..2} =
           {TRef(Ids.a5, 2, 2), TRef(Ids.a6, 0, 0)}
    /\ Len(TheAct(TargetActId).children) = 4
    /\ Len(ChildOf(ChildOf(TheAct(TargetActId).children, Ids.a5).children, 2).children) = 2
    /\ ChildOf(ChildOf(TheAct(TargetActId).children, Ids.a5).children, 2).children[2].text
           = <<" ">>
    /\ ChildOf(TheAct(TargetActId).children, Ids.a6).children[1].text = <<" ">>

\* A BlockAmendmentApplier whose position is one Article that the Act has not
IsArticleInsertion(entry) ==
    /\ entry.applier_class = "BlockAmendmentApplier"
    /\ entry.modification.position.rtype = "Reference"
    /\ LastLevel(entry.modification.position) = 1
    /\ entry.modification.position.article[1] = entry.modification.position.article[2]
    /\ ~HasChild(entry.before.children, entry.modification.position.article[1])

\* How many children stand before the first Article whose identifier is
\* greater than id: all of them when there is none
FirstGreater(children, id) ==
    IF \E i \in 1..Len(children) :
           children[i].cls = "Article" /\ children[i].identifier > id
    THEN (CHOOSE i \in 1..Len(children) :
              /\ children[i].cls = "Article" /\ children[i].identifier > id
              /\ \A j \in 1..(i - 1) :
                     ~(children[j].cls = "Article" /\ children[j].identifier > id)) - 1
    ELSE Len(children)

\* That number less the structural elements that stand right before it
InsertionPoint(children, id) ==
    CHOOSE k \in 0..FirstGreater(children, id) :
        /\ \A j \in (k + 1)..FirstGreater(children, id) : IsStructuralElement(children[j])
        /\ k = 0 \/ ~IsStructuralElement(children[k])

\* C9: a BlockAmendment on an Article-level Reference that names no child of
\* the Act puts its new children before the first Article of a greater
\* identifier, above the structural elements that stand right before that
\* Article, and at the end when no Article is greater; every child the Act
\* had stays, in its order.
C9_ArticleInsertion ==
    am_last.op = "apply_all" =>
        \A e \in 1..Len(am_last.log) :
            IsArticleInsertion(am_last.log[e]) =>
                /\ am_last.log[e].ok
                /\ am_last.log[e].applied
                /\ am_last.log[e].after.children =
                       SubSeq(am_last.log[e].before.children, 1,
                              InsertionPoint(am_last.log[e].before.children,
                                             am_last.log[e].modification.position.article[1]))
                       \o am_last.log[e].new_children
                       \o SubSeq(am_last.log[e].before.children,
                                 InsertionPoint(am_last.log[e].before.children,
                                                am_last.log[e].modification.position.article[1]) + 1,
                                 Len(am_last.log[e].before.children))

\* The identifiers of the children of the target Act
TargetChildIds ==
    [i \in 1..Len(TheAct(TargetActId).children) |->
        <<TheAct(TargetActId).children[i].cls, TheAct(TargetActId).children[i].identifier>>]

\* 5/A went between 5 and the subtitle before 6, 7 between 6 and 8, and 5/A
\* is in force from the day of the insertion.
C9_Witness ==
    /\ am_last.op = "apply_all"
    /\ am_last.ok
    /\ \A e \in 1..Len(am_last.log) : IsArticleInsertion(am_last.log[e])
    /\ TargetChildIds =
           << <<"Article", Ids.a5>>, <<"Article", Ids.a5A>>, <<"Subtitle", 1>>,
              <<"Article", Ids.a6>>, <<"Article", Ids.a7>>, <<"Article", Ids.a8>> >>
    /\ ChildOf(TheAct(TargetActId).children, Ids.a5A).children[1].from_date = loop_date

\* The raw Act the last conversion was given
ConvertedRawAct == raw_acts[IF am_last.ok THEN Len(converted) ELSE Len(converted) + 1]

\* The EnforcementDate directives of a raw Act
EnforcementDatesOf(act) ==
    SelectSeq(DirectivesOf(IterateAllSaesOfAct(act.children, 1), 1),
              LAMBDA d : d.kind = "EnforcementDate")

\* A directive with a position names a day before the day the directive
\* without position names, or has a repeal date
ViolatesEnforcementOrder(act) ==
    \E i, j \in 1..Len(EnforcementDatesOf(act)) :
        /\ EnforcementDatesOf(act)[i].position.rtype = "None"
        /\ EnforcementDatesOf(act)[j].position.rtype # "None"
        /\ \/ ConcretizeSingleDate(EnforcementDatesOf(act)[j], act.publication_date)
                  < ConcretizeSingleDate(EnforcementDatesOf(act)[i], act.publication_date)
           \/ EnforcementDatesOf(act)[j].repeal_date # NoDate

\* C10: in the EnforcementDateSet from_act returns, the default's from_date
\* is not after any special's from_date and no special has a to_date; an Act
\* whose directives say otherwise makes from_act, and with it the conversion,
\* fail.
C10_DefaultIsEarliest ==
    am_last.op = "convert_hun_law_act" =>
        /\ am_last.eds.ok =>
               \A i \in 1..Len(am_last.eds.specials) :
                   /\ am_last.eds.default.from_date
                          <= am_last.eds.specials[i].ced.from_date
                   /\ am_last.eds.specials[i].ced.to_date = NoDate
        /\ ViolatesEnforcementOrder(ConvertedRawAct) =>
               /\ ~am_last.eds.ok
               /\ ~am_last.ok
               /\ pc = "fatal"

\* An Act whose (2) enters into force after the rest has been converted.
C10_Witness ==
    /\ am_last.op = "convert_hun_law_act"
    /\ am_last.ok
    /\ am_last.eds.ok
    /\ Len(am_last.eds.specials) = 1
    /\ am_last.eds.default.from_date < am_last.eds.specials[1].ced.from_date

----------------------------------------------------------------------------
(* The resolver of enforcement dates *)

\* The SAEs of the Act the last conversion returned, each with its Reference
ConvertedSaes ==
    SaesWithReferences(converted[Len(converted)].children,
                       Reference(converted[Len(converted)].identifier,
                                 NoComp, NoComp, NoComp, NoComp), 1)

\* The indices of the targeted intervals whose Reference contains reference
ContainingSpecials(reference) ==
    {k \in 1..Len(am_last.eds.specials) :
         RefContains(am_last.eds.specials[k].ref, reference)}

\* C11: in a converted Act every SAE has the interval of the last targeted
\* directive, in declaration order, whose Reference contains the SAE's
\* Reference, and the default interval when no targeted directive contains
\* it.
C11_LastContainingSpecial ==
    (am_last.op = "convert_hun_law_act" /\ am_last.ok) =>
        \A i \in 1..Len(ConvertedSaes) :
            \E ced \in {IF ContainingSpecials(ConvertedSaes[i].reference) = {}
                        THEN am_last.eds.default
                        ELSE am_last.eds.specials[
                                 CHOOSE k \in ContainingSpecials(ConvertedSaes[i].reference) :
                                     \A j \in ContainingSpecials(ConvertedSaes[i].reference) :
                                         j <= k].ced} :
                /\ ConvertedSaes[i].sae.from_date = ced.from_date
                /\ ConvertedSaes[i].sae.to_date = ced.to_date

\* An Act was converted in which one SAE lies in two targeted directives of
\* different dates and has the date of the second, and another SAE lies in
\* none and has the default's.
C11_Witness ==
    /\ am_last.op = "convert_hun_law_act"
    /\ am_last.ok
    /\ \E i, j \in 1..Len(ConvertedSaes) :
           /\ ContainingSpecials(ConvertedSaes[i].reference) = {1, 2}
           /\ am_last.eds.specials[1].ced # am_last.eds.specials[2].ced
           /\ ConvertedSaes[i].sae.from_date = am_last.eds.specials[2].ced.from_date
           /\ ContainingSpecials(ConvertedSaes[j].reference) = {}
           /\ ConvertedSaes[j].sae.from_date = am_last.eds.default.from_date

----------------------------------------------------------------------------
(* ActSet: the claims *)

\* C12: no two Acts of the ActSet share an identifier.
C12_UniqueIdentifiers ==
    \A i, j \in 1..Len(act_set) :
        act_set[i].identifier = act_set[j].identifier => i = j

----------------------------------------------------------------------------
(* Metadata in the working representation *)

\* WM_ABLE_SAE_CLASSES of structure.py
WmAbleClasses ==
    {"Paragraph", "AlphabeticPoint", "NumericPoint",
     "AlphabeticSubpoint", "NumericSubpoint"}

\* Some SAE among children, or below one of them, has no metadata.  With
\* quoted, the SAEs of the blocks quoted by block amendments count as well.
RECURSIVE LacksMetadata(_, _)
LacksMetadata(children, quoted) ==
    \E i \in 1..Len(children) :
        \/ /\ children[i].cls \in WmAbleClasses
           /\ ~children[i].wm \/ LacksMetadata(children[i].children, quoted)
        \/ /\ quoted
           /\ children[i].cls \in {"BlockAmendmentContainer", "Article"}
           /\ LacksMetadata(children[i].children, TRUE)

\* Every Article of the Acts is a working Article, its children are
\* Paragraphs with metadata, and no SAE below them lacks metadata.
ArticlesHaveMetadata(acts, quoted) ==
    \A a \in 1..Len(acts) :
        \A c \in 1..Len(acts[a].children) :
            acts[a].children[c].cls = "Article" =>
                /\ acts[a].children[c].wm
                /\ \A p \in 1..Len(acts[a].children[c].children) :
                       /\ acts[a].children[c].children[p].cls = "Paragraph"
                       /\ acts[a].children[c].children[p].wm
                /\ ~LacksMetadata(acts[a].children[c].children, quoted)

\* C13 as stated: in every converted Act and every Act of the ActSet, every
\* Paragraph of every Article and every SAE nested below it, the SAEs of
\* quoted blocks included, carries metadata.
C13_AsStated ==
    /\ ArticlesHaveMetadata(converted, TRUE)
    /\ ArticlesHaveMetadata(act_set, TRUE)

\* C13 (amended): in every converted Act and every Act of the ActSet, every
\* Paragraph of every Article and every SAE reached from it through SAE
\* children carries metadata; the SAEs of a block quoted by a block
\* amendment are not among them.
C13_MetadataBelowArticles ==
    /\ ArticlesHaveMetadata(converted, FALSE)
    /\ ArticlesHaveMetadata(act_set, FALSE)

\* Act Y's block amendment has put paragraph (3) with its two points into
\* X/§1, and a converted Act still quotes a block without metadata.
C13_Witness ==
    /\ am_last.op = "apply_all_amendments"
    /\ am_last.ok
    /\ HasAct(act_set, XActId)
    /\ Len(ChildOf(ActsMapGet(act_set, XActId).children, 1).children) = 3
    /\ Len(ChildOf(ActsMapGet(act_set, XActId).children, 1).children[3].children) = 2
    /\ ~ArticlesHaveMetadata(converted, TRUE)

----------------------------------------------------------------------------
(* Appliers that find no target *)

\* The SAEs of the Act an applier of the log was given, each with its
\* Reference
EntrySaes(entry) ==
    SaesWithReferences(entry.before.children,
                       Reference(entry.before.identifier, NoComp, NoComp, NoComp, NoComp),
                       1)

\* The original text of a text replacement occurs in an SAE its position
\* covers
TextOccurs(entry) ==
    \E i \in 1..Len(EntrySaes(entry)) :
        /\ RefContains(entry.modification.position, EntrySaes(entry)[i].reference)
        /\ \/ StrContains(EntrySaes(entry)[i].sae.text,
                          OriginalTextOf(entry.modification))
           \/ StrContains(EntrySaes(entry)[i].sae.intro,
                          OriginalTextOf(entry.modification))
           \/ StrContains(EntrySaes(entry)[i].sae.wrap_up,
                          OriginalTextOf(entry.modification))

\* The Act has an Article or an SAE that the Reference of a Repeal covers
ReferenceTargetFound(entry) ==
    \/ \E i \in 1..Len(entry.before.children) :
           /\ entry.before.children[i].cls = "Article"
           /\ RefContains(entry.modification.position,
                          ArticleReference(entry.before, entry.before.children[i]))
    \/ \E i \in 1..Len(EntrySaes(entry)) :
           RefContains(entry.modification.position, EntrySaes(entry)[i].reference)

\* The Act has the structural element that a StructuralReference names
StructuralTargetFound(entry) ==
    \E i \in 1..Len(entry.before.children) :
        /\ entry.before.children[i].cls = entry.modification.position.s_cls
        /\ MatchesStructuralId(entry.modification.position, entry.before.children[i])

\* A Repeal of a structural element named by a plain StructuralReference
IsStructuralRepeal(entry) ==
    /\ entry.applier_class = "RepealApplier"
    /\ entry.modification.position.rtype = "StructuralReference"
    /\ entry.modification.position.special = ""

\* The target of a text replacement or of a Repeal is not in the Act
TargetNotMatched(entry) ==
    IF entry.applier_class = "TextReplacementApplier" THEN ~TextOccurs(entry)
    ELSE IF entry.applier_class # "RepealApplier" THEN FALSE
    ELSE IF entry.modification.position.rtype = "Reference"
    THEN ~ReferenceTargetFound(entry)
    ELSE IsStructuralRepeal(entry) /\ ~StructuralTargetFound(entry)

\* Applier e of the last apply_all did not apply, raised nothing and gave
\* back the Act it was given, and the applier after it was run.
SkippedWithWarning(e) ==
    /\ ~am_last.log[e].applied
    /\ am_last.log[e].ok
    /\ am_last.log[e].after = am_last.log[e].before
    /\ e < Len(am_last.mods) => Len(am_last.log) > e

\* C14 as stated: every applier of apply_all whose text or structural target
\* is not in the Act is skipped with a warning.
C14_AsStated ==
    am_last.op = "apply_all" =>
        \A e \in 1..Len(am_last.log) :
            TargetNotMatched(am_last.log[e]) => SkippedWithWarning(e)

\* C14 (amended): an applier of apply_all whose original text occurs in no
\* covered SAE, or whose Reference covers no Article and no SAE of the Act,
\* ends with applied = false, raises nothing and returns the Act it was
\* given, and the appliers after it are run; a Repeal whose plain
\* StructuralReference names no child of the Act is not among them.
C14_UnmatchedIsSkipped ==
    am_last.op = "apply_all" =>
        \A e \in 1..Len(am_last.log) :
            (TargetNotMatched(am_last.log[e]) /\ ~IsStructuralRepeal(am_last.log[e]))
                => SkippedWithWarning(e)

\* The first applier found no target and the second, run after it, changed
\* the Act.
C14_Witness ==
    /\ am_last.op = "apply_all"
    /\ am_last.ok
    /\ Len(am_last.log) = 2
    /\ TargetNotMatched(am_last.log[1])
    /\ ~am_last.log[1].applied
    /\ am_last.log[2].applied
    /\ am_last.log[2].after # am_last.log[2].before

----------------------------------------------------------------------------
(* A day of do_amendments is worked through or given up *)

\* The number of modifications in the buckets of the Acts that are in the
\* ActSet: the appliers apply_single_act selects
RECURSIVE SelectedAppliers(_, _, _)
SelectedAppliers(buckets, acts, i) ==
    IF i > Len(buckets) THEN 0
    ELSE (IF HasAct(acts, buckets[i].act_id) THEN Len(buckets[i].mods) ELSE 0)
         + SelectedAppliers(buckets, acts, i + 1)

\* An applier of the call failed an assertion
FailedApplier(call) ==
    \E r \in 1..Len(call.runs) :
        \E k \in 1..Len(call.runs[r].log) : ~call.runs[r].log[k].ok

\* An applier of the call changed the Act it was given
AppliedApplier(call) ==
    \E r \in 1..Len(call.runs) :
        \E k \in 1..Len(call.runs[r].log) : call.runs[r].log[k].applied

----------------------------------------------------------------------------
(* Content-addressed storage: loads of absent keys, and the files *)

\* C18: a load of a key that has no blob fails with KeyError and leaves the
\* files and the caches as they were, for an Article's and for an Act's
\* storage alike.
C18_AbsentLoadFails ==
    [][ /\ (last'.op = "load_article" /\ ~HasObject(files.articles, last'.key)) =>
               /\ ~last'.ok
               /\ files' = files
               /\ article_cache' = article_cache
               /\ act_cache' = act_cache
        /\ (last'.op = "load_act" /\ ~HasObject(files.acts, last'.key)) =>
               /\ ~last'.ok
               /\ files' = files
               /\ article_cache' = article_cache
               /\ act_cache' = act_cache
      ]_vars

\* The Article of a handle whose blob is not there was asked for, with
\* other Articles stored and cached.
C18_Witness ==
    /\ last.op = "load_article"
    /\ ~last.ok
    /\ ~HasObject(files.articles, last.key)
    /\ ArticleBlobCount >= 1
    /\ Len(article_cache) = ArticleCacheSize

\* C19 as stated: a save whose blob exists writes no file: no save opens an
\* existing blob file for writing.
C19_WrittenOnce ==
    last.op \in {"save_article", "save_act"} => ~last.rewrote

----------------------------------------------------------------------------
(* LruDict: the claims *)

\* C16: the cache of the Article storage, an LruDict(ArticleCacheSize),
\* never holds more than ArticleCacheSize entries, whatever item
\* assignments, updates, item reads, get() calls, deletions, saves and loads
\* it has seen.
C16_CacheIsBounded == Len(article_cache) <= ArticleCacheSize

\* All three Articles were saved through the storage, the dict is full, and
\* the last call was an update with two keys of which the first was not in
\* the dict.
C16_Witness ==
    /\ last.op = "update"
    /\ ArticleBlobCount = 3
    /\ Len(last.content) = ArticleCacheSize
    /\ Len(article_cache) = ArticleCacheSize
    /\ \E i \in 1..Len(article_cache) :
           \A j \in 1..Len(last.content) : article_cache[i].key # last.content[j]

\* The entries of the dict other than the key's, in their order
LruOthers(cache, key) == SelectSeq(cache, LAMBDA e : e.key # key)

\* C17: an assignment makes its key the most recent entry, with the value
\* assigned; when the key was in the dict the other entries stay, in their
\* order, also when the dict is full; when the key is new and the dict is
\* full exactly the least recent entry goes.  A read of a present key by
\* item access or get() returns its value and makes it the most recent
\* entry, the others keeping their order.  get() of a missing key returns the
\* default and leaves the dict as it is.
C17_LruOrder ==
    [][ /\ last'.op \in {"setitem", "save_article"} =>
               /\ article_cache'[Len(article_cache')] =
                      [key |-> last'.key, value |-> last'.article[1]]
               /\ IF LruContains(article_cache, last'.key)
                  THEN LruOthers(article_cache', last'.key) =
                           LruOthers(article_cache, last'.key)
                  ELSE IF Len(article_cache) < ArticleCacheSize
                  THEN LruOthers(article_cache', last'.key) = article_cache
                  ELSE LruOthers(article_cache', last'.key) = Tail(article_cache)
        /\ (last'.op \in {"getitem", "get"} /\ LruContains(article_cache, last'.key)) =>
               /\ last'.ok
               /\ last'.article =
                      <<article_cache[LruIndex(article_cache, last'.key)].value>>
               /\ article_cache' =
                      Append(LruOthers(article_cache, last'.key),
                             article_cache[LruIndex(article_cache, last'.key)])
        /\ (last'.op = "get" /\ ~LruContains(article_cache, last'.key)) =>
               /\ last'.ok
               /\ last'.article = <<>>
               /\ article_cache' = article_cache
      ]_vars

\* A new key was assigned to the full dict: the entry that was least recent
\* is gone and the one after it is now the least recent.
C17_Witness ==
    /\ last.op = "setitem"
    /\ ~last.from_cache
    /\ Len(last.content) = ArticleCacheSize
    /\ Len(article_cache) = ArticleCacheSize
    /\ ~LruContains(article_cache, last.content[1])
    /\ article_cache[1].key = last.content[2]
    /\ article_cache[Len(article_cache)].key = last.key


-----------------------------------------------------------------------------
(* The enforcement interval and the last day of a repealed SAE *)

\* The dates at the two ends of the SAE's interval, and the days next to them
BoundaryDates(sae) ==
    {sae.from_date - 1, sae.from_date, sae.from_date + 1}
        \cup (IF sae.to_date = NoDate THEN {}
              ELSE {sae.to_date - 1, sae.to_date, sae.to_date + 1})

\* C21 as stated: the interval of every SAE is half-open. An SAE is in force
\* on a date exactly when the date is not before its from_date and, if it has
\* a to_date, is before the to_date; on its to_date it is not in force.
C21_HalfOpenInterval ==
    \A i \in 1..Len(SaesOfActs(act_set, 1)) :
        \A date \in BoundaryDates(SaesOfActs(act_set, 1)[i]) :
            IsInForceAtDate(SaesOfActs(act_set, 1)[i].from_date,
                            SaesOfActs(act_set, 1)[i].to_date, date)
            <=> /\ SaesOfActs(act_set, 1)[i].from_date <= date
                /\ \/ SaesOfActs(act_set, 1)[i].to_date = NoDate
                   \/ date < SaesOfActs(act_set, 1)[i].to_date

-----------------------------------------------------------------------------
(* Block amendments marked as pure insertions *)

\* A BlockAmendmentApplier marked pure_insertion that cut the children of the
\* Act itself and ran to its end
IsPureActInsertion(entry) ==
    /\ entry.applier_class = "BlockAmendmentApplier"
    /\ entry.modification.pure_insertion
    /\ \/ entry.modification.position.rtype = "StructuralReference"
       \/ LastLevel(entry.modification.position) = 1
    /\ entry.ok
    /\ entry.applied

\* after is before with new_children put in at one place, nothing taken out
IsSplice(before, after, new_children) ==
    \E k \in 0..Len(before) :
        after = SubSeq(before, 1, k) \o new_children \o SubSeq(before, k + 1, Len(before))

\* C22 as stated: a BlockAmendment with pure_insertion removes nothing,
\* whichever way its cut points are computed: the children after it are the
\* children before it, all of them and in their order, with the new children
\* put in as one run.
C22_PureInsertionRemovesNothing ==
    am_last.op = "apply_all" =>
        \A e \in 1..Len(am_last.log) :
            IsPureActInsertion(am_last.log[e]) =>
                IsSplice(am_last.log[e].before.children,
                         am_last.log[e].after.children,
                         am_last.log[e].new_children)

-----------------------------------------------------------------------------
(* Structural amendments and repeals whose element is not in the Act *)

\* A Repeal or BlockAmendment applier whose position is a StructuralReference
\* without a special anchor
IsOrdinaryStructural(entry) ==
    /\ entry.applier_class \in {"RepealApplier", "BlockAmendmentApplier"}
    /\ entry.modification.position.rtype = "StructuralReference"
    /\ entry.modification.position.special = ""

\* A child of the Act, at or after the named Book when the position names
\* one, is of the position's structural type and has its identifier or title
StructuralTargetFoundFromBook(entry) ==
    \E i \in 1..Len(entry.before.children) :
        /\ entry.before.children[i].cls = entry.modification.position.s_cls
        /\ MatchesStructuralId(entry.modification.position, entry.before.children[i])
        /\ \/ entry.modification.position.book = 0
           \/ \E b \in 1..i :
                  /\ entry.before.children[b].cls = "Book"
                  /\ entry.before.children[b].identifier = entry.modification.position.book

\* C23: a Repeal or BlockAmendment on an ordinary StructuralReference whose
\* target matches no child of the Act, searched from the named Book when there
\* is one, fails an assertion: the applier does not end with a warning, no
\* applier runs after it, apply_all returns no Act and the ActSet stays as it
\* was.
C23_StructuralTargetMissingIsFatal ==
    am_last.op = "apply_all" =>
        \A e \in 1..Len(am_last.log) :
            (/\ IsOrdinaryStructural(am_last.log[e])
             /\ ~StructuralTargetFoundFromBook(am_last.log[e]))
            => /\ ~am_last.log[e].ok
               /\ ~am_last.log[e].applied
               /\ e = Len(am_last.log)
               /\ ~am_last.ok
               /\ pc = "fatal"
               /\ act_set = converted

\* A text amendment was applied, and the BlockAmendment after it, which names
\* a Subtitle the Act does not have, stopped apply_all.
C23_Witness ==
    /\ am_last.op = "apply_all"
    /\ pc = "fatal"
    /\ Len(am_last.mods) = 2
    /\ Len(am_last.log) = 2
    /\ am_last.log[1].applied
    /\ am_last.log[2].applier_class = "BlockAmendmentApplier"
    /\ IsOrdinaryStructural(am_last.log[2])
    /\ ~StructuralTargetFoundFromBook(am_last.log[2])
    /\ ~am_last.log[2].ok

-----------------------------------------------------------------------------
(* The enforcement interval of what a block amendment brings in *)

\* A BlockAmendmentApplier that ran to its end and changed the Act
IsAppliedBlockAmendment(entry) ==
    /\ entry.applier_class = "BlockAmendmentApplier"
    /\ entry.ok
    /\ entry.applied

\* The SAEs of the new children: the quoted SAEs and the SAEs of the quoted
\* Articles, with all the SAEs below them
IntroducedSaes(entry) ==
    IterateAllSaesFrom(entry.new_children, 1)
        \o IterateAllSaesOfAct(entry.new_children, 1)

\* The quoted Articles among the new children
IntroducedArticles(entry) ==
    SelectSeq(entry.new_children, LAMBDA c : c.cls = "Article")

\* The interval is {from_date = date, no to_date}
IsFreshInterval(node, date) ==
    /\ node.wm
    /\ node.from_date = date
    /\ node.to_date = NoDate

\* Every SAE the block amendment brought in has the fresh interval, and every
\* SAE of the Act after it is one of those or has the interval that the SAE
\* of its Reference had before
IntroducedSaesAreFresh(entry, date) ==
    /\ \A i \in 1..Len(IntroducedSaes(entry)) :
           IsFreshInterval(IntroducedSaes(entry)[i], date)
    /\ \A a \in {SaesWithReferences(entry.after.children,
                     Reference(entry.after.identifier, NoComp, NoComp, NoComp, NoComp), 1)} :
       \A b \in {EntrySaes(entry)} :
       \A i \in 1..Len(a) :
           \/ \E k \in 1..Len(IntroducedSaes(entry)) : IntroducedSaes(entry)[k] = a[i].sae
           \/ \E j \in 1..Len(b) :
                  /\ b[j].reference = a[i].reference
                  /\ b[j].sae.from_date = a[i].sae.from_date
                  /\ b[j].sae.to_date = a[i].sae.to_date

-----------------------------------------------------------------------------
(* Article title amendments over several Articles *)

\* The Articles of the Act the applier was given that its position covers
CoveredArticles(entry) ==
    SelectSeq(entry.before.children,
              LAMBDA c : /\ c.cls = "Article"
                         /\ RefContains(entry.modification.position,
                                        ArticleReference(entry.before, c)))

\* C25 as stated: an ArticleTitleAmendmentApplier that has run ends with
\* applied = true exactly when its original text occurred in the title of at
\* least one Article its position covers, a range of Articles included.
C25_AppliedIffTitleOccurred ==
    am_last.op = "apply_all" =>
        \A e \in 1..Len(am_last.log) :
            (/\ am_last.log[e].applier_class = "ArticleTitleAmendmentApplier"
             /\ am_last.log[e].ok)
            => (am_last.log[e].applied
                <=> \E i \in 1..Len(CoveredArticles(am_last.log[e])) :
                        StrContains(CoveredArticles(am_last.log[e])[i].title,
                                    am_last.log[e].modification.original_text))

-----------------------------------------------------------------------------
(* What the extractor puts into the buckets *)

\* The pairs the directives of one SAE give, from directive i on: for each
\* directive that is not an EnforcementDate, the directive for the Act its
\* position names and the Repeal of the SAE for the amending Act
RECURSIVE PairsOfSae(_, _, _)
PairsOfSae(x, own_id, i) ==
    IF i > Len(x.sae.semantic_data) THEN <<>>
    ELSE (IF x.sae.semantic_data[i].kind = "EnforcementDate" THEN <<>>
          ELSE <<[act_id |-> x.sae.semantic_data[i].position.act,
                  entry |-> [sae |-> x.sae, modification |-> x.sae.semantic_data[i]]],
                 [act_id |-> own_id,
                  entry |-> [sae |-> x.sae,
                             modification |-> Repeal(x.reference, NoneText)]]>>)
         \o PairsOfSae(x, own_id, i + 1)

\* The pairs of the SAEs that are in force on the date, in the order of the
\* walk over the Act
RECURSIVE PairsOfSaes(_, _, _, _)
PairsOfSaes(saes, own_id, date, i) ==
    IF i > Len(saes) THEN <<>>
    ELSE (IF /\ ~saes[i].sae.sd_none
             /\ IsInForceAtDate(saes[i].sae.from_date, saes[i].sae.to_date, date)
          THEN PairsOfSae(saes[i], own_id, 1) ELSE <<>>)
         \o PairsOfSaes(saes, own_id, date, i + 1)

\* The pairs a run of the extractor is to give
ExpectedPairs(run) ==
    PairsOfSaes(SaesOfAmendingAct(run), run.amending_act.identifier, run.date, 1)

\* The entries among the pairs that go to one Act
EntriesFor(pairs, act_id) ==
    [k \in 1..Len(SelectSeq(pairs, LAMBDA p : p.act_id = act_id)) |->
        SelectSeq(pairs, LAMBDA p : p.act_id = act_id)[k].entry]

-----------------------------------------------------------------------------
(* Amending clauses are used up by the day that applies them *)

\* The clauses a run of the extractor took directives from: the SAEs of the
\* amending Act that carry a directive and are in force on the run's date
ConsumedClauses(run) ==
    SelectSeq(SaesOfAmendingAct(run),
              LAMBDA x : /\ HasDirective(x.sae)
                         /\ IsInForceAtDate(x.sae.from_date, x.sae.to_date, run.date))

\* The SAEs of an Act of the ActSet, each with its Reference
SaesOfActWithReferences(act) ==
    SaesWithReferences(act.children,
                       Reference(act.identifier, NoComp, NoComp, NoComp, NoComp), 1)

\* The SAE has the text of a repealed element and empty semantic data
IsBlank(sae) ==
    /\ sae.text = NOT_ENFORCED_TEXT
    /\ ~sae.sd_none
    /\ sae.semantic_data = <<>>
    /\ sae.children = <<>>

\* The extraction on the Act for the date takes a directive from the SAE of
\* the Reference: the Act's own bucket gets the Repeal of that SAE
EmitsFrom(act, date, reference) ==
    \E buckets \in {GetAmendmentsAndRepeals(act, date, NoStorageAcc).buckets} :
    \E b \in 1..Len(buckets) :
    \E k \in 1..Len(buckets[b].mods) :
        buckets[b].mods[k].modification = Repeal(reference, NoneText)

\* After a day's apply_all_amendments every clause of an Act that was run on
\* that day and was in force on it is blank in the ActSet, and the
\* extraction on that Act as it is now, for any later date, takes nothing
\* from the clause
ClausesAreBlank ==
    (am_last.op = "apply_all_amendments" /\ am_last.ok) =>
        \A r \in 1..Len(am_last.runs) :
        \A clauses \in {ConsumedClauses(am_last.runs[r])} :
        \A act \in {ActsMapGet(act_set, am_last.runs[r].amending_act.identifier)} :
        \A saes \in {SaesOfActWithReferences(act)} :
        \A c \in 1..Len(clauses) :
            /\ \E j \in 1..Len(saes) : saes[j].reference = clauses[c].reference
            /\ \A j \in 1..Len(saes) :
                   saes[j].reference = clauses[c].reference => IsBlank(saes[j].sae)
            /\ \A date \in (am_last.runs[r].date + 1)..(TargetDate + 1) :
                   ~EmitsFrom(act, date, clauses[c].reference)

\* The runs of the next day take nothing from the clauses the runs of this
\* day took directives from
NoClauseIsTakenTwice ==
    (/\ am_last.op = "apply_all_amendments" /\ am_last.ok
     /\ am_last'.op = "apply_all_amendments")
    => \A r \in 1..Len(am_last.runs) :
       \A clauses \in {ConsumedClauses(am_last.runs[r])} :
       \A c \in 1..Len(clauses) :
       \A q \in 1..Len(am_last'.runs) :
           am_last'.runs[q].amending_act.identifier
               = am_last.runs[r].amending_act.identifier
           => Repeal(clauses[c].reference, NoneText) \notin OwnBucket(am_last'.runs[q])

\* C27: amending clauses are used up.  After a day's apply_all_amendments
\* every clause of an Act that was run on that day and was in force on it is
\* blank, with empty semantic data; the extraction on that Act for any later
\* date takes no modification from the clause, and the runs of the day after
\* do not.
C27_ClausesAreConsumed == []ClausesAreBlank /\ [][NoClauseIsTakenTwice]_vars

\* Act Y was run on a day when its (1) was in force and its (2) not yet: (1)
\* is blank now, (2) still carries its Repeal, and the extraction for the
\* next day takes the Repeal from (2).
C27_Witness ==
    /\ am_last.op = "apply_all_amendments"
    /\ am_last.ok
    /\ \E r \in 1..Len(am_last.runs) :
           /\ am_last.runs[r].amending_act.identifier = YActId
           /\ Len(ConsumedClauses(am_last.runs[r])) = 1
           /\ ConsumedClauses(am_last.runs[r])[1].reference
                  = Reference(YActId, One(1), One(1), NoComp, NoComp)
           /\ ConsumedClauses(am_last.runs[r])[1].sae.text = T_Clause
           /\ IsBlank(ChildOf(ChildOf(TheAct(YActId).children, 1).children, 1))
           /\ HasDirective(ChildOf(ChildOf(TheAct(YActId).children, 1).children, 2))
           /\ \E date \in (am_last.runs[r].date + 1)..(TargetDate + 1) :
                  EmitsFrom(TheAct(YActId), date,
                            Reference(YActId, One(1), One(2), NoComp, NoComp))

-----------------------------------------------------------------------------
(* Cut points lie within the children *)

\* after is before with the children of one range start_cut .. end_cut taken
\* out and new_children put in their place, 0 <= start_cut <= end_cut <= len
IsCutOfRange(before, after, new_children) ==
    \E start_cut \in 0..Len(before) :
    \E end_cut \in start_cut..Len(before) :
        after = SubSeq(before, 1, start_cut) \o new_children
                \o SubSeq(before, end_cut + 1, Len(before))

\* An applier that cut the children of the Act itself and ran to its end: a
\* Repeal on a StructuralReference, or a BlockAmendment on a
\* StructuralReference or on an Article
IsActCut(entry) ==
    /\ entry.applier_class \in {"RepealApplier", "BlockAmendmentApplier"}
    /\ \/ entry.modification.position.rtype = "StructuralReference"
       \/ /\ entry.applier_class = "BlockAmendmentApplier"
          /\ LastLevel(entry.modification.position) = 1
    /\ entry.ok
    /\ entry.applied

\* C28 as stated: the cut points of every strategy satisfy
\* 0 <= start_cut <= end_cut <= len(children), wherever the anchor Article
\* stands, so that the children after a cut are the children before it less
\* one range, none of them twice and none out of its place, with the new
\* children of a BlockAmendment in the place of the range.
C28_CutsAreWithinChildren ==
    am_last.op = "apply_all" =>
        \A e \in 1..Len(am_last.log) :
            IsActCut(am_last.log[e]) =>
                IsCutOfRange(am_last.log[e].before.children,
                             am_last.log[e].after.children,
                             am_last.log[e].new_children)

-----------------------------------------------------------------------------
(* The cache of a typed storage and the blobs *)

\* Every key of the cache has a blob, and the cached value is what decoding
\* that blob gives
IsCoherent(cache, fs) ==
    \A i \in 1..Len(cache) :
        /\ HasObject(fs, cache[i].key)
        /\ cache[i].value = ToObject(JsonLoad(fs[cache[i].key]))

-----------------------------------------------------------------------------
(* Every directive gets its day *)

\* The dates a clause of the model can enter into force on
ClauseDates == 0..(TargetDate + 2)

\* An Act that is in the ActSet on the day about to be worked on has a clause
\* with a directive whose from_date is the date
HasDueClause(date) ==
    /\ pc = "loop"
    /\ \E i \in 1..Len(Ingested) :
       \E saes \in {SaesOfActWithReferences(Ingested[i])} :
       \E j \in 1..Len(saes) :
           /\ HasDirective(saes[j].sae)
           /\ saes[j].sae.from_date = date

\* The last call worked on the date and took directives from a clause
DayExtracted(date) ==
    /\ am_last.op = "apply_all_amendments"
    /\ \E r \in 1..Len(am_last.runs) :
           /\ am_last.runs[r].date = date
           /\ ConsumedClauses(am_last.runs[r]) # <<>>

IsOffered(run, directive) ==
    \E k \in 1..Len(run.log) : run.log[k].modification = directive

\* The run took every directive of the clause: each is in the bucket of the
\* Act its position names, with the clause as its source
TakesClause(run, x) ==
    \A k \in 1..Len(x.sae.semantic_data) :
        x.sae.semantic_data[k].kind # "EnforcementDate" =>
            \E b \in 1..Len(run.buckets) :
                /\ run.buckets[b].act_id = x.sae.semantic_data[k].position.act
                /\ \E m \in 1..Len(run.buckets[b].mods) :
                       run.buckets[b].mods[m] =
                           [sae |-> x.sae, modification |-> x.sae.semantic_data[k]]

\* A day of the loop takes every directive of every clause that enters into
\* force on it, unless the day failed before the clause's Act had its turn,
\* and when the day did not fail every such directive whose target Act is in
\* the ActSet was given to an applier
DueClausesAreTaken ==
    (pc = "loop" /\ am_last'.op = "apply_all_amendments") =>
        \A i \in 1..Len(Ingested) :
        \A saes \in {SaesOfActWithReferences(Ingested[i])} :
        \A j \in 1..Len(saes) :
            (HasDirective(saes[j].sae) /\ saes[j].sae.from_date = loop_date) =>
                \/ /\ ~am_last'.ok
                   /\ \A r \in 1..Len(am_last'.runs) :
                          am_last'.runs[r].amending_act.identifier # Ingested[i].identifier
                \/ \E r \in 1..Len(am_last'.runs) :
                       /\ am_last'.runs[r].amending_act.identifier = Ingested[i].identifier
                       /\ am_last'.runs[r].date = loop_date
                       /\ TakesClause(am_last'.runs[r], saes[j])
                       /\ am_last'.ok =>
                              \A k \in 1..Len(saes[j].sae.semantic_data) :
                                  (/\ saes[j].sae.semantic_data[k].kind # "EnforcementDate"
                                   /\ HasAct(Ingested,
                                             saes[j].sae.semantic_data[k].position.act))
                                  => IsOffered(am_last'.runs[r],
                                               saes[j].sae.semantic_data[k])

====
